---- MODULE Spec2Model ----
(***************************************************************************)
(* A model of the layout engine of inlyne: the Positioner (position and    *)
(* reposition), the queue drain with its header/table filter and the       *)
(* incremental layout (position_queued_elements), and the handlers of the  *)
(* event loop that change zoom, viewport, scroll offset, section           *)
(* visibility, the loaded file and the help view.                          *)
(*                                                                         *)
(* Numbers.  The program computes in f32.  The model is in fixed point:    *)
(* zoom is an integer number of tenths (ZoomOne = 1.0) and every length    *)
(* on screen is an integer number of 1/10 pixel, so that the product       *)
(* base * hidpi_scale * zoom of the source is exact.                       *)
(***************************************************************************)
EXTENDS Integers, Sequences, FiniteSets, TLC

VARIABLES
    positioner,            \* Positioner: screen_size, reserved_height, hidpi_scale,
                           \*   page_width, page_margin, anchors
    zoom,                  \* Renderer::zoom
    scroll_y,              \* Renderer::scroll_y
    element_padding,       \* Renderer::element_padding
    opts,                  \* Inlyne::opts (element_padding)
    elements,              \* Inlyne::elements: Vec<Positioned<Element>>
    element_queue,         \* Inlyne::element_queue
    help_elements,         \* Inlyne::help_elements
    help_element_queue,    \* Inlyne::help_element_queue
    need_repositioning,    \* Inlyne::need_repositioning
    pending_resize,        \* run: pending_resize (<<>> is None)
    help_visible,          \* Inlyne::help_visible
    saved_scroll_y,        \* Inlyne::saved_scroll_y
    current_file_content,  \* Inlyne::current_file_content
    interpreter,           \* the document interpreter thread: elements still to enqueue
    help_interpreter,      \* the help interpreter thread: elements still to enqueue
    events,                \* InlyneEvents sent through the EventLoopProxy, not yet handled
    inputs,                \* ghost: the number of window events handled so far
    panicked,              \* the event-loop thread has panicked
    last,                  \* the handler that ran last, with what it observed
    trip,                  \* the zoom changes, or the help round trip, made since the last other handler
    pass,                  \* the last full layout pass and what changed since
    laid_with,             \* the zoom and viewport the rectangles of each list come from
    entry,                 \* the positioner at entry to the last call of position
    mouse_position,        \* run: mouse_position
    hovered,               \* what find_hoverable returned for mouse_position
    search,                \* redraw: search_matches, current_match, search_query
    drawn,                 \* the highlight rectangles handed to draw_rectangle
    htmlified,             \* markdown_to_html: the HTML before the caption pass
    html                   \* markdown_to_html: the HTML returned (<<>> until then)

vars == <<positioner, zoom, scroll_y, element_padding, opts, elements, element_queue,
          help_elements, help_element_queue, need_repositioning, pending_resize,
          help_visible, saved_scroll_y, current_file_content, interpreter,
          help_interpreter, events, inputs, panicked, last, trip, pass, laid_with,
          entry, mouse_position, hovered, search, drawn, htmlified, html>>

----------------------------------------------------------------------------
(* Arithmetic *)

Max(a, b) == IF a >= b THEN a ELSE b

Min(a, b) == IF a <= b THEN a ELSE b

\* f32::clamp(lo, hi)
Clamp(v, lo, hi) == IF v < lo THEN lo ELSE IF v > hi THEN hi ELSE v

\* ceiling of a / b for a >= 0, b > 0
CeilDiv(a, b) == (a + b - 1) \div b

\* zoom: 1. of Renderer::new, in tenths
ZoomOne == 10

\* n pixels as a length of the model
Px(n) == n * ZoomOne

\* Option<T>: None is <<>>, Some(v) is <<v>>
None == <<>>

Some(v) == <<v>>

IsSome(o) == Len(o) = 1

Unwrap(o) == o[1]

\* Rect::new(pos, size)
Rect(pos, size) == [pos |-> pos, size |-> size]

\* Rect::max
RectMax(r) == <<r.pos[1] + r.size[1], r.pos[2] + r.size[2]>>

\* Rect::contains
RectContains(r, loc) ==
    /\ r.pos[1] <= loc[1]
    /\ loc[1] <= RectMax(r)[1]
    /\ r.pos[2] <= loc[2]
    /\ loc[2] <= RectMax(r)[2]

----------------------------------------------------------------------------
(* Program constants *)

\* positioner.rs: DEFAULT_PADDING
DEFAULT_PADDING == 2

\* positioner.rs: DEFAULT_MARGIN
DEFAULT_MARGIN == 100

\* table.rs: TABLE_ROW_GAP
TABLE_ROW_GAP == 20

\* table.rs: TABLE_COL_GAP
TABLE_COL_GAP == 20

\* position_queued_elements: minimum spacing before a header, in base pixels
MIN_HEADER_SPACING == 12

\* position_queued_elements: minimum padding after a header, in base pixels
MIN_HEADER_PADDING == 2

\* position_queued_elements: minimum padding after a table, in base pixels
MIN_TABLE_PADDING == 6

----------------------------------------------------------------------------
(* Elements.  One record shape for the six variants of Element, wrapped as *)
(* Positioned<Element>: inner fields plus bounds.  Fields a variant does   *)
(* not have hold a default.                                                *)

Blank ==
    [kind |-> "Spacer", id |-> 0, is_header |-> FALSE, indent |-> 0, w |-> 0, h |-> 0,
     is_anchor |-> None, link |-> None, center |-> FALSE, loaded |-> TRUE,
     fails |-> FALSE,
     caption |-> "none", rows |-> 0, cols |-> 0,
     elements |-> <<>>, summary |-> None, hidden |-> FALSE, bounds |-> None]

\* TextBox of intrinsic width w and line height h (base pixels)
TextBox(w, h, hdr, anchor) ==
    [Blank EXCEPT !.kind = "TextBox", !.w = w, !.h = h, !.is_header = hdr,
                  !.is_anchor = anchor]

\* Spacer::new(space, _)
Spacer(space) == [Blank EXCEPT !.kind = "Spacer", !.h = space]

\* Image of intrinsic size w x h (base pixels)
Image(w, h, center) == [Blank EXCEPT !.kind = "Image", !.w = w, !.h = h, !.center = center]

\* Table of rows x cols cells, each cell a text of size w x h;
\* caption: "none" (None), "notexts" (Some, texts empty), "blank" (Some, only
\* whitespace texts), "text" (Some, a non-blank text)
Table(rows, cols, w, h, caption) ==
    [Blank EXCEPT !.kind = "Table", !.rows = rows, !.cols = cols, !.w = w, !.h = h,
                  !.caption = caption]

Row(children) == [Blank EXCEPT !.kind = "Row", !.elements = children]

Section(summary, children, hidden) ==
    [Blank EXCEPT !.kind = "Section", !.summary = summary, !.elements = children,
                  !.hidden = hidden]

\* Positioned::new: the element with bounds: None
PositionedNew(item) == [item EXCEPT !.bounds = None]

\* the element with its id set (the model's name for one element of a document)
WithId(e, i) == [e EXCEPT !.id = i]

----------------------------------------------------------------------------
(* The measurement collaborators.  Text shaping, image decoding and the    *)
(* grid solver are outside the layout engine; each is a deterministic      *)
(* function of the element, the space offered and the zoom.                *)

\* TextBox::size(text_system, (bounds_w, INFINITY), zoom): the text on one line when
\* it fits, otherwise wrapped to the offered width, a line holding one glyph at
\* least (a glyph is half as wide as the line is high)
TextBoxSize(tb, bounds_w, hidpi, z) ==
    LET full == tb.w * hidpi * z
        line == tb.h * hidpi * z
        room == Max(bounds_w, line \div 2)
    IN  IF full <= room THEN <<full, line>>
        ELSE <<room, CeilDiv(full, room) * line>>

\* Image::size(screen_size, zoom): None until the image is loaded, then the zoomed
\* size fitted into screen_size with its aspect ratio kept
ImageSize(image, bound, hidpi, z) ==
    IF ~image.loaded THEN None
    ELSE LET w0 == image.w * hidpi * z
             h0 == image.h * hidpi * z
             w1 == IF w0 > bound[1] THEN bound[1] ELSE w0
             h1 == IF w0 > bound[1] THEN (h0 * bound[1]) \div w0 ELSE h0
             w2 == IF h1 > bound[2] THEN (w1 * bound[2]) \div h1 ELSE w1
             h2 == IF h1 > bound[2] THEN bound[2] ELSE h1
         IN  Some(<<w2, h2>>)

\* whether a caption gets a node of its own in Table::layout
LayoutHasCaption(table) == table.caption \in {"blank", "text"}

\* Table::layout(text_system, taffy, bounds, zoom): Err when the grid solver
\* fails, otherwise the total size, the caption's layout and the cells' layouts
TableLayout(table, bounds_w, hidpi, z) ==
    LET cell     == <<table.w * hidpi * z, table.h * hidpi * z>>
        grid_w   == table.cols * cell[1] + (table.cols - 1) * Px(TABLE_COL_GAP)
        grid_h   == table.rows * cell[2] + (table.rows - 1) * Px(TABLE_ROW_GAP)
        cap      == LayoutHasCaption(table)
        cap_h    == IF cap THEN cell[2] ELSE 0
    IN  [ok |-> ~table.fails,
         size |-> <<IF cap THEN bounds_w ELSE grid_w, cap_h + grid_h>>,
         caption_layout |-> IF cap THEN Some(Rect(<<0, 0>>, <<bounds_w, cap_h>>)) ELSE None,
         grid_pos |-> <<0, cap_h>>,
         cell |-> cell]

----------------------------------------------------------------------------
(* Positioner *)

\* Positioner::new_with_padding
PositionerNew(screen_size, hidpi_scale, page_width, page_margin, pad) ==
    [screen_size |-> screen_size,
     reserved_height |-> pad * hidpi_scale * ZoomOne,
     hidpi_scale |-> hidpi_scale,
     page_width |-> page_width,
     page_margin |-> page_margin,
     anchors |-> <<>>]

\* position: let centering = (screen_size.0 - page_width).max(0.) / 2.
Centering(p) == Max(p.screen_size[1] - p.page_width, 0) \div 2

\* element_padding * self.hidpi_scale * zoom
PadPx(p, z, pad) == pad * p.hidpi_scale * z

\* HashMap::insert
MapInsert(m, k, v) == [x \in (DOMAIN m) \cup {k} |-> IF x = k THEN v ELSE m[x]]

RECURSIVE Position(_, _, _, _)
RECURSIVE RowLoop(_, _, _, _, _)
RECURSIVE SectionLoop(_, _, _, _, _)

\* position, Element::TextBox arm
PositionTextBox(p, el, z, pad) ==
    LET centering == Centering(p)
        pos  == <<p.page_margin + el.indent + centering, p.reserved_height>>
        size == TextBoxSize(el, Max(p.screen_size[1] - pos[1] - p.page_margin - centering, 0),
                            p.hidpi_scale, z)
        p1   == IF IsSome(el.is_anchor)
                THEN [p EXCEPT !.anchors = MapInsert(p.anchors, Unwrap(el.is_anchor), pos[2])]
                ELSE p
    IN  [ok |-> TRUE, p |-> p1, el |-> [el EXCEPT !.bounds = Some(Rect(pos, size))]]

\* position, Element::Spacer arm
PositionSpacer(p, el, z, pad) ==
    [ok |-> TRUE, p |-> p,
     el |-> [el EXCEPT !.bounds =
                Some(Rect(<<0, p.reserved_height>>, <<0, el.h * p.hidpi_scale * z>>))]]

\* position, Element::Image arm
PositionImage(p, el, z, pad) ==
    LET centering == Centering(p)
        got  == ImageSize(el, <<Min(p.screen_size[1], p.page_width), p.screen_size[2]>>,
                          p.hidpi_scale, z)
        size == IF IsSome(got) THEN Unwrap(got) ELSE <<0, 0>>
        pos  == IF el.center
                THEN <<p.screen_size[1] \div 2 - size[1] \div 2, p.reserved_height>>
                ELSE <<p.page_margin + centering, p.reserved_height>>
    IN  [ok |-> TRUE, p |-> p, el |-> [el EXCEPT !.bounds = Some(Rect(pos, size))]]

\* the width position offers a table: screen_size.0 - pos.0 - page_margin - centering
TableBoundsWidth(p) ==
    p.screen_size[1] - (p.page_margin + Centering(p)) - p.page_margin - Centering(p)

\* position, Element::Table arm
PositionTable(p, el, z, pad) ==
    LET centering == Centering(p)
        pos    == <<p.page_margin + centering, p.reserved_height>>
        layout == TableLayout(el, TableBoundsWidth(p), p.hidpi_scale, z)
    IN  IF ~layout.ok THEN [ok |-> FALSE, p |-> p, el |-> el]
        ELSE [ok |-> TRUE, p |-> p, el |-> [el EXCEPT !.bounds = Some(Rect(pos, layout.size))]]

\* the right content edge a row wraps at: screen_size.0 - page_margin - centering
RowRightEdge(p) == p.screen_size[1] - p.page_margin - Centering(p)

\* a wrap test against the screen width, the margin forgotten
RowWrapsAtScreen(p, target_width) == target_width > p.screen_size[1]

\* whether the row starts another line at a child: target_width > right edge
RowWraps(p, target_width) == target_width > RowRightEdge(p)

\* a row that ends at the bottom of its last line
RowTrailingPadNone(p, z, pad) == 0

\* the padding position adds to a row's height after its last line
RowTrailingPad(p, z, pad) == PadPx(p, z, pad)

\* position, Element::Row arm: one iteration of the loop over row.elements, r
\* being what position returned for child i; st holds the loop's variables and
\* the children positioned so far
RowStep(st, r, i, z, pad) ==
    IF ~r.ok THEN [st EXCEPT !.ok = FALSE, !.p = r.p]
    ELSE
        LET left == r.p.page_margin + Centering(r.p)
            b    == Unwrap(r.el.bounds)
            target_width == st.reserved_width + PadPx(r.p, z, pad) + b.size[1]
            wrap == RowWraps(r.p, target_width)
            inner == IF wrap THEN st.inner_reserved_height + st.max_height + PadPx(r.p, z, pad)
                     ELSE st.inner_reserved_height
            x    == IF wrap THEN left ELSE st.reserved_width
        IN  [p |-> r.p, ok |-> TRUE,
             elements |-> [st.elements EXCEPT ![i] =
                              [r.el EXCEPT !.bounds =
                                  Some([b EXCEPT !.pos = <<x, r.p.reserved_height + inner>>])]],
             reserved_width |-> IF wrap THEN left + PadPx(r.p, z, pad) + b.size[1]
                                ELSE target_width,
             inner_reserved_height |-> inner,
             max_height |-> IF wrap THEN b.size[2] ELSE Max(st.max_height, b.size[2]),
             max_width |-> IF wrap THEN Max(st.max_width, st.reserved_width)
                           ELSE st.max_width]

\* position, Element::Row arm: the loop over row.elements from child i on
RowLoop(st, i, n, z, pad) ==
    IF i > n \/ ~st.ok THEN st
    ELSE RowLoop(RowStep(st, Position(st.p, st.elements[i], z, pad), i, z, pad),
                 i + 1, n, z, pad)

\* position, Element::Row arm: the loop's variables before the first child
RowStart(p, el) ==
    [p |-> p, ok |-> TRUE, elements |-> el.elements,
     reserved_width |-> p.page_margin + Centering(p), inner_reserved_height |-> 0,
     max_height |-> 0, max_width |-> 0]

\* position, Element::Row arm: the row's rectangle from the loop's variables st
RowFinish(p, el, st, z, pad) ==
    LET left == p.page_margin + Centering(p)
        max_width == Max(st.max_width, st.reserved_width)
        inner == st.inner_reserved_height + st.max_height + RowTrailingPad(p, z, pad)
        kids  == [el EXCEPT !.elements = st.elements]
    IN  IF ~st.ok THEN [ok |-> FALSE, p |-> st.p, el |-> kids]
        ELSE [ok |-> TRUE, p |-> st.p,
              el |-> [kids EXCEPT !.bounds =
                         Some(Rect(<<left, p.reserved_height>>, <<max_width - left, inner>>))]]

\* position, Element::Row arm
PositionRow(p, el, z, pad) ==
    RowFinish(p, el, RowLoop(RowStart(p, el), 1, Len(el.elements), z, pad), z, pad)

\* every child counts, hidden or not
SectionCountsAlways(section) == TRUE

\* whether a child adds to its section's rectangle: !*section.hidden.borrow()
SectionCounts(section) == ~section.hidden

\* a private cursor that stands still while the section is hidden
SectionAdvanceVisible(section, h, gap) == IF section.hidden THEN 0 ELSE h + gap

\* what the section's private cursor advances by after a child of height h
SectionAdvance(section, h, gap) == h + gap

\* position, Element::Section arm: one iteration of the loop over
\* section.elements, r being what position returned for child i; st holds the
\* positioner, the section's size so far and the children positioned
SectionStep(st, r, i, z, pad) ==
    IF ~r.ok THEN [st EXCEPT !.ok = FALSE, !.p = r.p]
    ELSE
        LET size == Unwrap(r.el.bounds).size
        IN  [p |-> [r.p EXCEPT !.reserved_height =
                              @ + SectionAdvance(st, size[2], PadPx(r.p, z, pad))],
             ok |-> TRUE,
             elements |-> [st.elements EXCEPT ![i] = r.el],
             hidden |-> st.hidden,
             size |-> IF SectionCounts(st)
                      THEN <<Max(st.size[1], size[1]),
                             st.size[2] + size[2] + PadPx(r.p, z, pad)>>
                      ELSE st.size]

\* position, Element::Section arm: the loop over section.elements from child i on
SectionLoop(st, i, n, z, pad) ==
    IF i > n \/ ~st.ok THEN st
    ELSE SectionLoop(SectionStep(st, Position(st.p, st.elements[i], z, pad), i, z, pad),
                     i + 1, n, z, pad)

\* the cursor stays where the last child left it
SectionCursorKept(start_y, p) == p.reserved_height

\* where position leaves the cursor after a section: the y the section started at
SectionCursorAfter(start_y, p) == start_y

\* position, Element::Section arm: the loop's variables after the summary, rs
\* being what position returned for it
SectionStart(p, el, rs, z, pad) ==
    LET has   == IsSome(el.summary) /\ rs.ok
        ssize == IF has THEN Unwrap(rs.el.bounds).size ELSE <<0, 0>>
    IN  [p |-> IF has
               THEN [rs.p EXCEPT !.reserved_height = @ + ssize[2] + PadPx(p, z, pad)]
               ELSE rs.p,
         ok |-> rs.ok, elements |-> el.elements, hidden |-> el.hidden,
         size |-> IF has THEN <<Max(0, ssize[1]), ssize[2] + PadPx(p, z, pad)>>
                  ELSE <<0, 0>>]

\* position, Element::Section arm: the section's rectangle from the loop's
\* variables st
SectionFinish(p, el, rs, st) ==
    LET pos  == <<p.page_margin + Centering(p), p.reserved_height>>
        kids == [el EXCEPT !.summary = IF IsSome(el.summary) THEN Some(rs.el) ELSE @,
                           !.elements = st.elements]
    IN  IF ~st.ok THEN [ok |-> FALSE, p |-> st.p, el |-> kids]
        ELSE [ok |-> TRUE,
              p |-> [st.p EXCEPT !.reserved_height = SectionCursorAfter(pos[2], st.p)],
              el |-> [kids EXCEPT !.bounds = Some(Rect(pos, st.size))]]

\* position, Element::Section arm, rs being what position returned for the summary
SectionAfterSummary(p, el, rs, z, pad) ==
    SectionFinish(p, el, rs,
                  SectionLoop(SectionStart(p, el, rs, z, pad), 1, Len(el.elements), z, pad))

\* position, Element::Section arm
PositionSection(p, el, z, pad) ==
    SectionAfterSummary(p, el,
                        IF IsSome(el.summary) THEN Position(p, Unwrap(el.summary), z, pad)
                        ELSE [ok |-> TRUE, p |-> p, el |-> Blank],
                        z, pad)

\* Positioner::position: positions the element at reserved_height; on Err the
\* element's own bounds are left as they were
Position(p, el, z, pad) ==
    CASE el.kind = "TextBox" -> PositionTextBox(p, el, z, pad)
      [] el.kind = "Spacer"  -> PositionSpacer(p, el, z, pad)
      [] el.kind = "Image"   -> PositionImage(p, el, z, pad)
      [] el.kind = "Table"   -> PositionTable(p, el, z, pad)
      [] el.kind = "Row"     -> PositionRow(p, el, z, pad)
      [] el.kind = "Section" -> PositionSection(p, el, z, pad)

\* reposition: the caption test of the padding rule,
\* caption.map(|c| c.texts.is_empty() || all texts blank).unwrap_or(true)
RepositionCaptionEmpty(table) == table.caption \in {"none", "notexts", "blank"}

\* skip_padding that forgets the caption test
SkipPaddingAnyTable(els, i) ==
    /\ els[i].kind = "TextBox"
    /\ els[i].is_header
    /\ i + 1 <= Len(els)
    /\ els[i + 1].kind = "Table"

\* reposition: skip_padding for elements[i]
SkipPadding(els, i) ==
    /\ els[i].kind = "TextBox"
    /\ els[i].is_header
    /\ i + 1 <= Len(els)
    /\ els[i + 1].kind = "Table"
    /\ RepositionCaptionEmpty(els[i + 1])

\* a pass that goes on from the cursor of the pass before
RepositionStartKeep(p, z, pad) == p.reserved_height + pad * p.hidpi_scale * z

\* reposition: the cursor the pass starts at
RepositionStart(p, z, pad) == pad * p.hidpi_scale * z

\* reposition: one iteration of the loop, r being what position returned for
\* element i
RepositionStep(st, r, i, z, pad) ==
    LET els1 == [st.elements EXCEPT ![i] = r.el]
        b    == Unwrap(r.el.bounds)
        bot  == b.pos[2] + b.size[2]
    IN  IF ~r.ok THEN [ok |-> FALSE, p |-> r.p, elements |-> els1]
        ELSE [ok |-> TRUE,
              p |-> [r.p EXCEPT !.reserved_height =
                                   IF SkipPadding(els1, i) THEN bot
                                   ELSE bot + PadPx(r.p, z, pad)],
              elements |-> els1]

RECURSIVE RepositionLoop(_, _, _, _)

\* reposition: the loop over elements, from element i on
RepositionLoop(st, i, z, pad) ==
    IF i > Len(st.elements) \/ ~st.ok THEN st
    ELSE RepositionLoop(RepositionStep(st, Position(st.p, st.elements[i], z, pad), i, z, pad),
                        i + 1, z, pad)

\* Positioner::reposition: [ok, p, elements]
Reposition(p, els, z, pad) ==
    RepositionLoop([ok |-> TRUE,
                    p |-> [p EXCEPT !.reserved_height = RepositionStart(p, z, pad)],
                    elements |-> els], 1, z, pad)

----------------------------------------------------------------------------
(* position_queued_elements *)

\* Vec::remove(idx), for an index (from 1) within the vector
RemoveAt(v, idx) == SubSeq(v, 1, idx - 1) \o SubSeq(v, idx + 1, Len(v))

\* a caption test that takes a caption of blank texts for a caption
FilterHasCaptionSome(table) == table.caption \in {"blank", "text"}

\* the filter's caption test,
\* caption.map(|c| !c.texts.is_empty() && some text not blank).unwrap_or(false)
FilterHasCaption(table) == table.caption = "text"

\* the index of the next Table after index i, 0 if there is none
NextTable(v, i) ==
    LET js == {j \in (i + 1)..Len(v) : v[j].kind = "Table"}
    IN  IF js = {} THEN 0 ELSE CHOOSE j \in js : \A k \in js : j <= k

\* the indices header i marks for removal, in the order they are pushed
MarksOf(v, i) ==
    LET j == NextTable(v, i)
    IN  IF v[i].kind = "TextBox" /\ v[i].is_header /\ j # 0 /\ ~FilterHasCaption(v[j])
        THEN [k \in 1..(j - 1 - i) |-> i + k]
        ELSE <<>>

RECURSIVE MarksFrom(_, _)

\* elements_to_remove as the marking loop builds it from index i on
MarksFrom(v, i) == IF i > Len(v) THEN <<>> ELSE MarksOf(v, i) \o MarksFrom(v, i + 1)

\* elements_to_remove after the marking loop
ElementsToRemove(v) == MarksFrom(v, 1)

RECURSIVE RemoveLoop(_, _, _)

\* the removal loop, for &idx in elements_to_remove.iter().rev(): marks[1..n] are
\* still to be removed, last first; Vec::remove panics on an index out of bounds
RemoveLoop(v, marks, n) ==
    IF n = 0 THEN [panicked |-> FALSE, vec |-> v]
    ELSE IF marks[n] > Len(v) THEN [panicked |-> TRUE, vec |-> v]
    ELSE RemoveLoop(RemoveAt(v, marks[n]), marks, n - 1)

\* the filter of position_queued_elements: [panicked, vec]
Filter(v) ==
    LET marks == ElementsToRemove(v)
    IN  RemoveLoop(v, marks, Len(marks))

\* position_queued_elements: the padding added after a positioned element
QueuedPadding(p, el, z, pad) ==
    LET normal_padding == pad * p.hidpi_scale * z
    IN  IF el.kind = "TextBox" /\ el.is_header
        THEN Max(normal_padding, MIN_HEADER_PADDING * p.hidpi_scale * z)
        ELSE IF el.kind = "Table"
        THEN Max(normal_padding, MIN_TABLE_PADDING * p.hidpi_scale * z)
        ELSE normal_padding

\* position_queued_elements: the spacing added to the cursor before a header that
\* is not at the document start
QueuedHeaderSpacing(p, el, z, pad) ==
    IF /\ el.kind = "TextBox"
       /\ el.is_header
       /\ p.reserved_height > pad * p.hidpi_scale * ZoomOne
    THEN MIN_HEADER_SPACING * p.hidpi_scale * z
    ELSE 0

\* position_queued_elements: the positioner with the header spacing added to
\* its cursor
QueuedCursor(p, el, z, pad) ==
    [p EXCEPT !.reserved_height = @ + QueuedHeaderSpacing(p, el, z, pad)]

\* an iteration that pushes the element as Positioned::new left it
QueuedStepUnpositioned(st, r, z, pad) ==
    IF ~r.ok THEN [st EXCEPT !.panicked = TRUE, !.p = r.p]
    ELSE [panicked |-> FALSE, p |-> r.p,
          elements |-> Append(st.elements, [r.el EXCEPT !.bounds = None])]

\* position_queued_elements: one iteration of the loop, r being what position
\* returned for the element; position(..).unwrap() panics on Err
QueuedStep(st, r, z, pad) ==
    IF ~r.ok THEN [st EXCEPT !.panicked = TRUE, !.p = r.p]
    ELSE
        LET h       == Unwrap(r.el.bounds).size[2]
            padding == QueuedPadding(r.p, r.el, z, pad)
        IN  [panicked |-> FALSE,
             p |-> [r.p EXCEPT !.reserved_height =
                                  @ + h + (IF padding > 0 THEN padding ELSE 0)],
             elements |-> Append(st.elements, r.el)]

RECURSIVE QueuedLoopFromBack(_, _, _, _)
\* a loop that takes the elements with pop() instead of remove(0)
QueuedLoopFromBack(st, v, z, pad) ==
    IF v = <<>> \/ st.panicked THEN st
    ELSE QueuedLoopFromBack(
             QueuedStep(st,
                        Position(QueuedCursor(st.p, PositionedNew(v[Len(v)]), z, pad),
                                 PositionedNew(v[Len(v)]), z, pad),
                        z, pad),
             SubSeq(v, 1, Len(v) - 1), z, pad)

RECURSIVE QueuedLoop(_, _, _, _)

\* position_queued_elements: the loop while !elements_vec.is_empty()
QueuedLoop(st, v, z, pad) ==
    IF v = <<>> \/ st.panicked THEN st
    ELSE QueuedLoop(QueuedStep(st,
                               Position(QueuedCursor(st.p, PositionedNew(Head(v)), z, pad),
                                        PositionedNew(Head(v)), z, pad),
                               z, pad),
                    Tail(v), z, pad)

\* position_queued_elements: what the call leaves, f being the filter's result
\* and st the loop's
QueuedResult(f, st) ==
    [panicked |-> st.panicked, p |-> st.p, elements |-> st.elements, kept |-> f.vec]

\* position_queued_elements after the filter, f being the filter's result
PositionFiltered(f, p, els, z, pad) ==
    IF f.panicked
    THEN [panicked |-> TRUE, p |-> p, elements |-> els, kept |-> f.vec]
    ELSE QueuedResult(f, QueuedLoop([panicked |-> FALSE, p |-> p, elements |-> els],
                                    f.vec, z, pad))

\* Inlyne::position_queued_elements(queue, renderer, elements), the queue drained
\* whole: [panicked, p, elements, kept], kept being the batch after the filter
PositionQueuedElements(queue, p, els, z, pad) ==
    PositionFiltered(Filter(queue), p, els, z, pad)

----------------------------------------------------------------------------
(* Renderer *)

\* Renderer::screen_height
ScreenHeight(p) == p.screen_size[2]

\* an offset clamped to the content height, the viewport's height not taken off
SetScrollYNoViewport(p, y) == Clamp(y, 0, Max(p.reserved_height, 0))

\* Renderer::set_scroll_y: the clamped offset
SetScrollY(p, y) == Clamp(y, 0, Max(p.reserved_height - ScreenHeight(p), 0))

\* Action::Zoom: the new zoom factor
ZoomAfter(z, zoom_action) ==
    CASE zoom_action = "In"    -> (z * 11) \div 10
      [] zoom_action = "Out"   -> (z * 9) \div 10
      [] zoom_action = "Reset" -> ZoomOne

----------------------------------------------------------------------------
(* Bounds of the model *)

\* the longest element list given to the positioner alone
MaxPosLen == 2

\* the longest document given to the queue drain
MaxBatch == 5

\* the zoom factors explored, in tenths
MinZoom == 9

MaxZoom == 11

\* a zoom change the model follows: its factor is exact in tenths and in range
ZoomAllowed(z, zoom_action) ==
    /\ zoom_action # "Reset" => (z * 11) % 10 = 0 /\ (z * 9) % 10 = 0
    /\ ZoomAfter(z, zoom_action) \in MinZoom..MaxZoom
    /\ ZoomAfter(z, zoom_action) # z

ZoomActions == {"In", "Out", "Reset"}

\* viewport sizes (width, height)
Screens == {<<Px(800), Px(600)>>, <<Px(520), Px(300)>>, <<Px(180), Px(300)>>}

\* the page width when opts.page_width is None: f32::MAX
NoPageWidth == Px(100000)

\* the displays of the positioner alone (hidpi_scale, page_width): a plain display
\* with a configured page width and a hidpi display without one
PosConfigs == {<<1, Px(600)>>, <<2, NoPageWidth>>}

Paddings == {DEFAULT_PADDING}

\* no full pass has run yet
NoPass == [full |-> FALSE, toggled |-> {}, again |-> FALSE, after |-> {}]

NoTrip == [n |-> 0, zoom0 |-> 0, reserved0 |-> 0, scroll0 |-> 0]

\* what the last handler was; for a queue drain, the batch drained and what the
\* filter kept of it
Last(kind) == [kind |-> kind, batch |-> <<>>, kept |-> <<>>]

NoEvents == [position_queue |-> FALSE, reposition |-> FALSE]

\* no hoverable under the cursor
NoHover == [kind |-> "None", path |-> <<>>, link |-> None]

\* neither list has rectangles yet
NoLayouts == [doc |-> {}, help |-> {}]

\* the search is not active
NoSearch == [active |-> FALSE, matches |-> <<>>, current_match |-> None, query |-> 0]

\* the variables of the cursor, the search and the HTML conversion, at rest
RestIdle ==
    /\ entry = None
    /\ mouse_position = <<0, 0>>
    /\ hovered = NoHover
    /\ search = NoSearch
    /\ drawn = <<>>
    /\ htmlified = <<>>
    /\ html = None

RestUnchanged ==
    UNCHANGED <<entry, mouse_position, hovered, search, drawn, htmlified, html>>

----------------------------------------------------------------------------
(* Element lists for the positioner alone *)

Para == TextBox(150, 20, FALSE, Some("a"))

Header == TextBox(120, 30, TRUE, None)

LongText == TextBox(700, 20, FALSE, Some("b"))

Pic == Image(200, 100, FALSE)

BigPic == Image(900, 300, TRUE)

PlainTable == Table(2, 2, 60, 20, "none")

CaptionedTable == Table(2, 3, 60, 20, "text")

PicRow == Row(<<Pic, Pic, Para, Pic>>)

MixedRow == Row(<<BigPic, Spacer(5), Row(<<Pic, LongText>>)>>)

Details == Section(Some(TextBox(50, 20, FALSE, None)), <<LongText, PicRow>>, FALSE)

Nested == Section(None, <<Para, Section(Some(Header), <<PlainTable>>, TRUE)>>, FALSE)

PosCatalog == <<Para, Header, PlainTable, CaptionedTable, PicRow, MixedRow, Details, Nested>>

\* the sequences over 1..n of length at most k
RECURSIVE SeqsUpTo(_, _)
SeqsUpTo(n, k) ==
    IF k = 0 THEN {<<>>}
    ELSE LET shorter == SeqsUpTo(n, k - 1)
         IN  shorter \cup {Append(q, i) : q \in {r \in shorter : Len(r) = k - 1}, i \in 1..n}

\* an element list: catalogue entries, each element named by its place in the list
ListOf(catalog, q) == [i \in 1..Len(q) |-> WithId(catalog[q[i]], i)]

PosLists == {ListOf(PosCatalog, q) : q \in SeqsUpTo(Len(PosCatalog), MaxPosLen)}

----------------------------------------------------------------------------
(* The positioner alone: an element list, a viewport, a zoom factor and the *)
(* hidden flags change, and Renderer::reposition lays the list out.         *)

\* the variables only the event loop uses
LoopIdle ==
    /\ scroll_y = 0
    /\ element_queue = <<>>
    /\ help_elements = <<>>
    /\ help_element_queue = <<>>
    /\ need_repositioning = FALSE
    /\ pending_resize = None
    /\ help_visible = FALSE
    /\ saved_scroll_y = 0
    /\ current_file_content = <<>>
    /\ interpreter = <<>>
    /\ help_interpreter = <<>>
    /\ events = NoEvents
    /\ inputs = 0
    /\ panicked = FALSE
    /\ trip = NoTrip
    /\ laid_with = NoLayouts

LoopUnchanged ==
    UNCHANGED <<scroll_y, element_queue, help_elements, help_element_queue,
                need_repositioning, pending_resize, help_visible, saved_scroll_y,
                current_file_content, interpreter, help_interpreter, events, inputs,
                panicked, trip, laid_with>>

PosInit ==
    /\ \E sz \in Screens, cfg \in PosConfigs, pad \in Paddings :
         /\ positioner = PositionerNew(sz, cfg[1], cfg[2], Px(DEFAULT_MARGIN), pad)
         /\ element_padding = pad
         /\ opts = [element_padding |-> pad]
    /\ zoom = ZoomOne
    /\ elements \in {[i \in 1..Len(l) |-> PositionedNew(l[i])] : l \in PosLists}
    /\ last = Last("init")
    /\ pass = NoPass
    /\ LoopIdle
    /\ RestIdle

\* the list laid out again by a handler, r being what Renderer::reposition
\* returned
PosLaidOut(r, kind, full_pass) ==
    /\ r.ok
    /\ positioner' = r.p
    /\ elements' = r.elements
    /\ last' = Last(kind)
    /\ pass' = full_pass
    /\ UNCHANGED <<element_padding, opts>>
    /\ LoopUnchanged
    /\ RestUnchanged

\* Renderer::reposition(&mut self.elements); pass records that the layout is that
\* of a full pass (full), the flags toggled since (toggled), whether this pass ran
\* on the unchanged result of a full pass (again) and the flags toggled between the
\* pass before and this one (after)
PosReposition ==
    /\ PosLaidOut(Reposition(positioner, elements, zoom, element_padding), "reposition",
                  [full |-> TRUE, toggled |-> {},
                   again |-> pass.full /\ pass.toggled = {},
                   after |-> IF pass.full THEN pass.toggled ELSE {}])
    /\ UNCHANGED zoom

\* Hoverable::Summary: *hidden = !*hidden, for the top-level section i
PosToggle(i) ==
    /\ elements[i].kind = "Section"
    /\ elements' = [elements EXCEPT ![i].hidden = ~@]
    /\ last' = Last("toggle")
    /\ pass' = [pass EXCEPT !.toggled = (@ \ {i}) \cup ({i} \ @),
                            !.again = FALSE, !.after = {}]
    /\ UNCHANGED <<positioner, zoom, element_padding, opts>>
    /\ LoopUnchanged
    /\ RestUnchanged

\* Action::Zoom: self.renderer.zoom = zoom; self.renderer.reposition(..)
PosZoom(zoom_action) ==
    /\ ZoomAllowed(zoom, zoom_action)
    /\ zoom' = ZoomAfter(zoom, zoom_action)
    /\ PosLaidOut(Reposition(positioner, elements, ZoomAfter(zoom, zoom_action),
                             element_padding),
                  "zoom", [NoPass EXCEPT !.full = TRUE])

\* MainEventsCleared: positioner.screen_size = size.into(); self.renderer.reposition(..)
PosResize(size) ==
    /\ size # positioner.screen_size
    /\ PosLaidOut(Reposition([positioner EXCEPT !.screen_size = size], elements, zoom,
                             element_padding),
                  "resize", [NoPass EXCEPT !.full = TRUE])
    /\ UNCHANGED zoom

PosNext ==
    \/ PosReposition
    \/ \E i \in 1..Len(elements) : PosToggle(i)
    \/ \E a \in ZoomActions : PosZoom(a)
    \/ \E size \in Screens : PosResize(size)

SpecPos == PosInit /\ [][PosNext]_vars

----------------------------------------------------------------------------
(* Properties of the positioner *)

\* the elements of the tree below el, el included
RECURSIVE Tree(_)
Tree(el) ==
    {el} \cup UNION {Tree(el.elements[i]) : i \in 1..Len(el.elements)}
         \cup (IF IsSome(el.summary) THEN Tree(Unwrap(el.summary)) ELSE {})

AllOf(els) == UNION {Tree(els[i]) : i \in 1..Len(els)}

HeightOf(e) == Unwrap(e.bounds).size[2]

RECURSIVE SumHeightsPlus(_, _, _)
\* the sum over els[i..] of (height + gap)
SumHeightsPlus(els, i, gap) ==
    IF i > Len(els) THEN 0 ELSE HeightOf(els[i]) + gap + SumHeightsPlus(els, i + 1, gap)

\* the headers directly followed by a table whose caption is missing or empty
SuppressedAt(els) ==
    {i \in 1..(Len(els) - 1) :
        /\ els[i].kind = "TextBox" /\ els[i].is_header
        /\ els[i + 1].kind = "Table"
        /\ els[i + 1].caption \in {"none", "notexts", "blank"}}

\* the layout in elements is the result of a full pass under the current inputs
FreshLayout == pass.full /\ pass.toggled = {}

\* C1: after reposition over a list with no hidden section, reserved_height is the
\* top padding plus the sum of (element height + padding) minus one padding for
\* each header directly followed by a table with a missing or empty caption
C1_ReservedHeightSum ==
    (FreshLayout /\ \A e \in AllOf(elements) : e.kind = "Section" => ~e.hidden) =>
        LET gap == element_padding * positioner.hidpi_scale * zoom
        IN  positioner.reserved_height =
                gap + SumHeightsPlus(elements, 1, gap)
                    - gap * Cardinality(SuppressedAt(elements))

C1_Witness ==
    /\ FreshLayout
    /\ Len(elements) = 2
    /\ SuppressedAt(elements) = {1}
    /\ positioner.reserved_height > 0

\* C2: reposition called on the unchanged result of a full pass changes no
\* rectangle (of an element, a child or a summary) and not reserved_height
C2_Idempotent ==
    [][(FreshLayout /\ last'.kind = "reposition") =>
          /\ elements' = elements
          /\ positioner'.reserved_height = positioner.reserved_height]_vars

C2_Witness ==
    /\ last.kind = "reposition"
    /\ pass.again
    /\ \E e \in AllOf(elements) : e.kind = "Row" /\ Len(e.elements) > 1
    /\ \E e \in AllOf(elements) : e.kind = "Section" /\ IsSome(e.summary)

\* the step is a reposition run after exactly the hidden flag of the top-level
\* section k was toggled on the result of a full pass
ToggledThenRepositioned(k) ==
    /\ pass.full
    /\ pass.toggled = {k}
    /\ last'.kind = "reposition"

\* C3 as stated: the elements before the section keep their rectangles, and of the
\* rest only the section's height and the y of the elements after it change
C3_AsStated ==
    [][\A k \in 1..Len(elements) : ToggledThenRepositioned(k) =>
          /\ \A i \in 1..(k - 1) : elements'[i] = elements[i]
          /\ Unwrap(elements'[k].bounds).pos = Unwrap(elements[k].bounds).pos
          /\ Unwrap(elements'[k].bounds).size[1] = Unwrap(elements[k].bounds).size[1]
          /\ elements'[k].elements = elements[k].elements
          /\ elements'[k].summary = elements[k].summary
          /\ \A i \in (k + 1)..Len(elements) :
                /\ Unwrap(elements'[i].bounds).pos[1] = Unwrap(elements[i].bounds).pos[1]
                /\ Unwrap(elements'[i].bounds).size = Unwrap(elements[i].bounds).size]_vars

\* C3 (amended): the elements before the section keep their rectangles, and of the
\* rest only the section's height and width and the y of the elements after it
\* change
C3_HiddenLocality ==
    [][\A k \in 1..Len(elements) : ToggledThenRepositioned(k) =>
          /\ \A i \in 1..(k - 1) : elements'[i] = elements[i]
          /\ Unwrap(elements'[k].bounds).pos = Unwrap(elements[k].bounds).pos
          /\ elements'[k].elements = elements[k].elements
          /\ elements'[k].summary = elements[k].summary
          /\ \A i \in (k + 1)..Len(elements) :
                /\ Unwrap(elements'[i].bounds).pos[1] = Unwrap(elements[i].bounds).pos[1]
                /\ Unwrap(elements'[i].bounds).size = Unwrap(elements[i].bounds).size]_vars

C3_Witness ==
    /\ last.kind = "reposition"
    /\ pass.after = {2}
    /\ elements[2].hidden
    /\ HeightOf(elements[1]) > 0

\* the left and right content edges of the current viewport
LeftEdge == positioner.page_margin + Max(positioner.screen_size[1] - positioner.page_width, 0) \div 2

RightEdge ==
    positioner.screen_size[1] - positioner.page_margin
        - Max(positioner.screen_size[1] - positioner.page_width, 0) \div 2

PositionedRows == {e \in AllOf(elements) : e.kind = "Row" /\ IsSome(e.bounds)}

\* C4: after positioning a row, every child ends at or before the right content
\* edge, unless the child alone is wider than the available width, and then it
\* starts at the left content edge
C4_RowWrapBound ==
    pass.full =>
        \A row \in PositionedRows : \A i \in 1..Len(row.elements) :
            LET b == Unwrap(row.elements[i].bounds)
            IN  \/ b.pos[1] + b.size[1] <= RightEdge
                \/ b.size[1] > RightEdge - LeftEdge /\ b.pos[1] = LeftEdge

C4_Witness ==
    /\ pass.full
    /\ \E row \in PositionedRows :
          /\ \E i \in 1..Len(row.elements) :
                Unwrap(row.elements[i].bounds).size[1] > RightEdge - LeftEdge
          /\ \E i \in 2..Len(row.elements) :
                /\ Unwrap(row.elements[i].bounds).pos[1] = LeftEdge
                /\ Unwrap(row.elements[i].bounds).size[1] <= RightEdge - LeftEdge
                /\ Unwrap(row.elements[i].bounds).size[1] > 0

\* the y of the lines of a row: the distinct y of its children
LineYs(row) == {Unwrap(row.elements[i].bounds).pos[2] : i \in 1..Len(row.elements)}

\* the height of the line at y: the greatest height of a child on it
LineHeight(row, y) ==
    LET hs == {Unwrap(row.elements[i].bounds).size[2] :
                  i \in {j \in 1..Len(row.elements) : Unwrap(row.elements[j].bounds).pos[2] = y}}
    IN  CHOOSE h \in hs : \A g \in hs : g <= h

RECURSIVE SumLineHeights(_, _)
SumLineHeights(row, ys) ==
    IF ys = {} THEN 0
    ELSE LET y == CHOOSE v \in ys : TRUE
         IN  LineHeight(row, y) + SumLineHeights(row, ys \ {y})

\* the first child of the row does not fit the width with its padding, so the row
\* starts a line at it and the line above it is empty
FirstChildWraps(row) ==
    LeftEdge + element_padding * positioner.hidpi_scale * zoom
        + Unwrap(row.elements[1].bounds).size[1] > RightEdge

\* C5 as stated: a row laid out on n lines is as high as its lines together plus
\* n - 1 padding gaps
C5_AsStated ==
    pass.full =>
        \A row \in PositionedRows : Len(row.elements) >= 1 =>
            HeightOf(row) =
                SumLineHeights(row, LineYs(row))
                    + (Cardinality(LineYs(row)) - 1)
                        * (element_padding * positioner.hidpi_scale * zoom)

\* C5 (amended): a row laid out on n lines is as high as its lines together plus n
\* padding gaps, one after each line, the last included, and one more when the
\* first child already starts a line of its own below an empty one
C5_RowHeight ==
    pass.full =>
        \A row \in PositionedRows : Len(row.elements) >= 1 =>
            HeightOf(row) =
                SumLineHeights(row, LineYs(row))
                    + (Cardinality(LineYs(row)) + (IF FirstChildWraps(row) THEN 1 ELSE 0))
                        * (element_padding * positioner.hidpi_scale * zoom)

C5_Witness ==
    /\ pass.full
    /\ \E row \in PositionedRows :
          /\ Cardinality(LineYs(row)) = 2
          /\ ~FirstChildWraps(row)
          /\ \A y \in LineYs(row) : LineHeight(row, y) > 0

----------------------------------------------------------------------------
(* The event loop: Inlyne::run, the functions its handlers call, and the    *)
(* interpreter threads that fill the element queues.                        *)

\* the window events handled in one run
MaxInputs == 3

Link == [TextBox(100, 20, FALSE, None) EXCEPT !.link = Some("a")]

Fold == Section(Some(TextBox(50, 20, FALSE, None)), <<LongText>>, FALSE)

\* a table whose grid layout fails: Table::layout returns Err
Unsolvable == [PlainTable EXCEPT !.fails = TRUE]

LoopCatalog == <<Para, Header, PlainTable, Link, Fold, Unsolvable>>

\* the documents of the file on disk
LoopDocs ==
    {ListOf(LoopCatalog, q) : q \in {<<4, 2, 3, 1>>, <<5, 1>>, <<2, 1, 3>>, <<1, 6>>}}

\* the help text: a header and the table of key bindings under it
HelpDoc == ListOf(LoopCatalog, <<2, 3>>)

LoopScreens == {<<Px(400), Px(100)>>, <<Px(360), Px(60)>>}

\* Action::Scroll, MouseScrollDelta::LineDelta: num_lines
ScrollLines == {-1, 1}

\* opts.lines_to_scroll
LinesToScroll == 3

\* f32::INFINITY: more than any offset
Infinity == Px(100000)

\* the hoverable found in a child list, as seen from the parent at place i
Under(i, h) == IF h.kind \in {"None", "panic"} THEN h ELSE [h EXCEPT !.path = <<i>> \o @]

RECURSIVE FindHoverable(_, _)
\* Inlyne::find_hoverable(elements, loc): the first element that contains loc and
\* is no spacer, then the hoverable in it; Positioned::contains panics on an
\* element without bounds.  A text box or a table under the cursor gives its
\* text, path being the places from the top-level list down to the element.
FindHoverable(els, loc) ==
    LET unpos == {i \in 1..Len(els) : ~IsSome(els[i].bounds)}
        hits  == {i \in 1..Len(els) :
                     /\ IsSome(els[i].bounds)
                     /\ RectContains(Unwrap(els[i].bounds), loc)
                     /\ els[i].kind # "Spacer"}
        first(S) == CHOOSE i \in S : \A j \in S : i <= j
    IN  IF unpos # {} /\ (hits = {} \/ first(unpos) < first(hits))
        THEN [NoHover EXCEPT !.kind = "panic"]
        ELSE IF hits = {} THEN NoHover
        ELSE LET i  == first(hits)
                 el == els[i]
             IN  CASE el.kind = "TextBox" -> [kind |-> "Text", path |-> <<i>>, link |-> el.link]
                   [] el.kind = "Table"   -> [kind |-> "Text", path |-> <<i>>, link |-> None]
                   [] el.kind = "Image"   -> [kind |-> "Image", path |-> <<i>>, link |-> el.link]
                   [] el.kind = "Row"     -> Under(i, FindHoverable(el.elements, loc))
                   [] el.kind = "Section" ->
                        IF /\ IsSome(el.summary)
                           /\ IsSome(Unwrap(el.summary).bounds)
                           /\ RectContains(Unwrap(Unwrap(el.summary).bounds), loc)
                        THEN [kind |-> "Summary", path |-> <<i>>, link |-> None]
                        ELSE IF ~el.hidden
                             THEN Under(i, FindHoverable(el.elements, loc))
                             ELSE NoHover

RECURSIVE ToggleAt(_, _)
\* Hoverable::Summary: *hidden = !*hidden, for the section at path
ToggleAt(els, path) ==
    IF Len(path) = 1
    THEN [els EXCEPT ![Head(path)].hidden = ~@]
    ELSE [els EXCEPT ![Head(path)].elements = ToggleAt(@, Tail(path))]

\* hide_help: the document's reserved height recomputed from its rectangles
HideHelpHeight(p, els, z, pad) ==
    pad * p.hidpi_scale * ZoomOne
        + SumHeightsPlus(SelectSeq(els, LAMBDA e : IsSome(e.bounds)), 1, PadPx(p, z, pad))

\* self.renderer.scroll_y * (new_reserved / old_reserved)
ScaleScroll(y, new_reserved, old_reserved) == (y * new_reserved) \div old_reserved

\* the zoom and viewport a list's rectangles come from after a full pass over it
LaidFresh(els, z, p) == IF els = <<>> THEN {} ELSE {<<z, p.screen_size>>}

\* the same after position_queued_elements appended to the list at the current
\* zoom and viewport
LaidAdd(laid, before, after) ==
    IF after = before THEN laid ELSE laid \cup {<<zoom, positioner.screen_size>>}

\* the ghost of a zoom round trip: the state before the first of two zoom
\* changes handled one after the other
TripAfterZoom ==
    IF trip.n = 1 THEN [trip EXCEPT !.n = 2]
    ELSE [n |-> 1, zoom0 |-> zoom, reserved0 |-> positioner.reserved_height,
          scroll0 |-> scroll_y]

\* the ghost of a help round trip: the state show_help started from (n = 3), kept
\* when hide_help is the next handler (n = 4)
TripAtShowHelp ==
    [n |-> 3, zoom0 |-> zoom, reserved0 |-> positioner.reserved_height, scroll0 |-> scroll_y]

TripAfterHideHelp == IF trip.n = 3 THEN [trip EXCEPT !.n = 4] ELSE NoTrip

HelpUnchanged ==
    UNCHANGED <<help_elements, help_element_queue, help_interpreter, help_visible,
                saved_scroll_y>>

DocUnchanged == UNCHANGED <<elements, element_queue, interpreter, current_file_content>>

\* Inlyne::new and the first load_file: the renderer as constructed, the file's
\* contents sent to the interpreter
LoopInit(docs, screens) ==
    /\ \E sz \in screens :
         positioner = PositionerNew(sz, 1, NoPageWidth, Px(DEFAULT_MARGIN), DEFAULT_PADDING)
    /\ element_padding = DEFAULT_PADDING
    /\ opts = [element_padding |-> DEFAULT_PADDING]
    /\ zoom = ZoomOne
    /\ scroll_y = 0
    /\ elements = <<>>
    /\ element_queue = <<>>
    /\ help_elements = <<>>
    /\ help_element_queue = <<>>
    /\ need_repositioning = FALSE
    /\ pending_resize = None
    /\ help_visible = FALSE
    /\ saved_scroll_y = 0
    /\ \E doc \in docs : current_file_content = doc /\ interpreter = doc
    /\ help_interpreter = <<>>
    /\ events = NoEvents
    /\ inputs = 0
    /\ panicked = FALSE
    /\ last = Last("init")
    /\ trip = NoTrip
    /\ pass = NoPass
    /\ laid_with = NoLayouts
    /\ RestIdle

Init == LoopInit(LoopDocs, LoopScreens)

\* the interpreter thread: the document's elements pushed to the element queue as
\* one batch, then InlyneEvent::PositionQueue sent
InterpreterPush ==
    /\ ~panicked
    /\ interpreter # <<>>
    /\ element_queue' = element_queue \o interpreter
    /\ interpreter' = <<>>
    /\ events' = [events EXCEPT !.position_queue = TRUE]
    /\ UNCHANGED <<positioner, zoom, scroll_y, element_padding, opts, elements,
                   current_file_content, need_repositioning, pending_resize, inputs,
                   panicked, last, trip, pass,
                   laid_with>>
    /\ RestUnchanged
    /\ HelpUnchanged

\* the help interpreter thread of show_help: the same, into the help queue
HelpInterpreterPush ==
    /\ ~panicked
    /\ help_interpreter # <<>>
    /\ help_element_queue' = help_element_queue \o help_interpreter
    /\ help_interpreter' = <<>>
    /\ events' = [events EXCEPT !.position_queue = TRUE]
    /\ UNCHANGED <<positioner, zoom, scroll_y, element_padding, opts, help_elements,
                   help_visible, saved_scroll_y, need_repositioning, pending_resize,
                   inputs, panicked, last, trip, pass,
                   laid_with>>
    /\ RestUnchanged
    /\ DocUnchanged

\* InlyneEvent::PositionQueue, r being what position_queued_elements left
PositionQueueDone(r) ==
    /\ ~panicked
    /\ events.position_queue
    /\ events' = [events EXCEPT !.position_queue = FALSE]
    /\ element_queue' = <<>>
    /\ positioner' = r.p
    /\ elements' = r.elements
    /\ panicked' = r.panicked
    /\ last' = [kind |-> "queue", batch |-> element_queue, kept |-> r.kept]
    /\ trip' = NoTrip
    /\ UNCHANGED <<zoom, scroll_y, element_padding, opts, interpreter,
                   current_file_content, need_repositioning, pending_resize, inputs,
                   pass>>
    /\ laid_with' = [laid_with EXCEPT !.doc = LaidAdd(@, elements, r.elements)]
    /\ RestUnchanged
    /\ HelpUnchanged

\* InlyneEvent::PositionQueue: the document's queue drained into self.elements
PositionQueue ==
    PositionQueueDone(PositionQueuedElements(element_queue, positioner, elements, zoom,
                                             element_padding))

\* Event::RedrawRequested, r being what position_queued_elements left of queue
RedrawDone(queue, r) ==
    /\ ~panicked
    /\ IF help_visible
       THEN /\ help_element_queue' = <<>>
            /\ help_elements' = r.elements
            /\ UNCHANGED <<element_queue, elements>>
       ELSE /\ element_queue' = <<>>
            /\ elements' = r.elements
            /\ UNCHANGED <<help_element_queue, help_elements>>
    /\ positioner' = r.p
    /\ panicked' = r.panicked
    /\ scroll_y' = IF r.panicked THEN scroll_y ELSE SetScrollY(r.p, scroll_y)
    /\ last' = [kind |-> "redraw", batch |-> queue, kept |-> r.kept]
    /\ trip' = NoTrip
    /\ UNCHANGED <<zoom, element_padding, opts, interpreter, current_file_content,
                   help_interpreter, help_visible, saved_scroll_y, need_repositioning,
                   pending_resize, events, inputs, pass>>
    /\ laid_with' = IF help_visible
                    THEN [laid_with EXCEPT !.help = LaidAdd(@, help_elements, r.elements)]
                    ELSE [laid_with EXCEPT !.doc = LaidAdd(@, elements, r.elements)]
    /\ RestUnchanged

\* Event::RedrawRequested: the queue of what is shown drained, the scroll offset
\* clamped again, the frame drawn
RedrawRequested ==
    RedrawDone(IF help_visible THEN help_element_queue ELSE element_queue,
               PositionQueuedElements(IF help_visible THEN help_element_queue
                                      ELSE element_queue,
                                      positioner,
                                      IF help_visible THEN help_elements ELSE elements,
                                      zoom, element_padding))

\* Inlyne::scroll_lines, from Action::Scroll or MouseScrollDelta::LineDelta
Scroll(num_lines) ==
    LET num_pixels == num_lines * 16 * LinesToScroll * positioner.hidpi_scale * zoom
    IN
    /\ ~panicked
    /\ inputs < MaxInputs
    /\ inputs' = inputs + 1
    /\ scroll_y' = SetScrollY(positioner, scroll_y - num_pixels)
    /\ last' = Last("scroll")
    /\ trip' = NoTrip
    /\ UNCHANGED <<positioner, zoom, element_padding, opts, need_repositioning,
                   pending_resize, events, panicked, pass,
                   laid_with>>
    /\ RestUnchanged
    /\ DocUnchanged
    /\ HelpUnchanged

\* Action::ToEdge: set_scroll_y(0.0) or set_scroll_y(f32::INFINITY)
ToEdge(direction) ==
    /\ ~panicked
    /\ inputs < MaxInputs
    /\ inputs' = inputs + 1
    /\ scroll_y' = SetScrollY(positioner, IF direction = "Up" THEN 0 ELSE Infinity)
    /\ last' = Last("scroll")
    /\ trip' = NoTrip
    /\ UNCHANGED <<positioner, zoom, element_padding, opts, need_repositioning,
                   pending_resize, events, panicked, pass,
                   laid_with>>
    /\ RestUnchanged
    /\ DocUnchanged
    /\ HelpUnchanged

\* Action::Zoom, z being the new factor and r what Renderer::reposition returned
ZoomKeyDone(z, r) ==
    /\ ~panicked
    /\ inputs < MaxInputs
    /\ inputs' = inputs + 1
    /\ zoom' = z
    /\ positioner' = r.p
    /\ elements' = r.elements
    /\ panicked' = ~r.ok
    /\ scroll_y' = IF r.ok
                   THEN SetScrollY(r.p, ScaleScroll(scroll_y, r.p.reserved_height,
                                                    positioner.reserved_height))
                   ELSE scroll_y
    /\ last' = Last("zoom")
    /\ trip' = TripAfterZoom
    /\ UNCHANGED <<element_padding, opts, element_queue, interpreter,
                   current_file_content, need_repositioning, pending_resize, events,
                   pass>>
    /\ laid_with' = [laid_with EXCEPT !.doc = LaidFresh(r.elements, z, r.p)]
    /\ RestUnchanged
    /\ HelpUnchanged

\* Action::Zoom: the factor changed, self.elements laid out again, the scroll
\* offset scaled by new_reserved / old_reserved
ZoomKey(zoom_action) ==
    /\ ZoomAllowed(zoom, zoom_action)
    /\ ZoomKeyDone(ZoomAfter(zoom, zoom_action),
                   Reposition(positioner, elements, ZoomAfter(zoom, zoom_action),
                              element_padding))

\* WindowEvent::Resized: pending_resize = Some(size)
Resized(size) ==
    /\ ~panicked
    /\ inputs < MaxInputs
    /\ size # positioner.screen_size
    /\ inputs' = inputs + 1
    /\ pending_resize' = Some(size)
    /\ last' = Last("resized")
    /\ trip' = NoTrip
    /\ UNCHANGED <<positioner, zoom, scroll_y, element_padding, opts,
                   need_repositioning, events, panicked, pass,
                   laid_with>>
    /\ RestUnchanged
    /\ DocUnchanged
    /\ HelpUnchanged

\* InlyneEvent::Reposition: need_repositioning = true
RepositionEvent ==
    /\ ~panicked
    /\ events.reposition
    /\ events' = [events EXCEPT !.reposition = FALSE]
    /\ need_repositioning' = TRUE
    /\ last' = Last("event")
    /\ trip' = NoTrip
    /\ UNCHANGED <<positioner, zoom, scroll_y, element_padding, opts, pending_resize,
                   inputs, panicked, pass,
                   laid_with>>
    /\ RestUnchanged
    /\ DocUnchanged
    /\ HelpUnchanged

\* MainEventsCleared, if let Some(size) = pending_resize.take(): what
\* Renderer::reposition returns for the elements shown on the new screen size
ResizeApplied(shown) ==
    IF IsSome(pending_resize)
    THEN Reposition([positioner EXCEPT !.screen_size = Unwrap(pending_resize)], shown,
                    zoom, element_padding)
    ELSE [ok |-> TRUE, p |-> positioner, elements |-> shown]

\* MainEventsCleared, if self.need_repositioning: what Renderer::reposition returns
\* after the resize left r1
NeedApplied(r1) ==
    IF r1.ok /\ need_repositioning
    THEN Reposition(r1.p, r1.elements, zoom, element_padding)
    ELSE r1

\* Event::MainEventsCleared, r1 being the layout after the resize and r2 the
\* layout after need_repositioning
ClearedDone(r1, r2) ==
    /\ ~panicked
    /\ IsSome(pending_resize) \/ need_repositioning
    /\ pending_resize' = None
    /\ need_repositioning' = (need_repositioning /\ ~r2.ok)
    /\ positioner' = r2.p
    /\ IF help_visible
       THEN help_elements' = r2.elements /\ UNCHANGED elements
       ELSE elements' = r2.elements /\ UNCHANGED help_elements
    /\ scroll_y' = IF IsSome(pending_resize) /\ r1.ok
                   THEN SetScrollY(r1.p, ScaleScroll(scroll_y, r1.p.reserved_height,
                                                     positioner.reserved_height))
                   ELSE scroll_y
    /\ panicked' = ~r2.ok
    /\ last' = Last(IF need_repositioning THEN "reposition" ELSE "resize")
    /\ trip' = NoTrip
    /\ UNCHANGED <<zoom, element_padding, opts, element_queue, interpreter,
                   current_file_content, help_element_queue, help_interpreter,
                   help_visible, saved_scroll_y, events, inputs, pass>>
    /\ laid_with' = IF help_visible
                    THEN [laid_with EXCEPT !.help = LaidFresh(r2.elements, zoom, r2.p)]
                    ELSE [laid_with EXCEPT !.doc = LaidFresh(r2.elements, zoom, r2.p)]
    /\ RestUnchanged

\* Event::MainEventsCleared after the resize, r1 being the layout it left
ClearedAfterResize(r1) == ClearedDone(r1, NeedApplied(r1))

\* Event::MainEventsCleared: a pending resize applied (layout, then the scroll
\* offset scaled and clamped), then the layout asked for by need_repositioning
MainEventsCleared ==
    ClearedAfterResize(ResizeApplied(IF help_visible THEN help_elements ELSE elements))

\* where the cursor is when the button goes down: at the corner of an element
ClickPoints ==
    {Unwrap(e.bounds).pos : e \in {t \in AllOf(elements) : IsSome(t.bounds)}}

\* the hoverable is a text or an image linking to an anchor of the document
IsJump(h) ==
    /\ h.kind \in {"Text", "Image"}
    /\ IsSome(h.link)
    /\ Unwrap(h.link) \in DOMAIN positioner.anchors

\* WindowEvent::MouseInput, Pressed, h being what find_hoverable returned
PressedOn(h) ==
    /\ ~panicked
    /\ inputs < MaxInputs
    /\ h.kind \in {"Summary", "panic"} \/ IsJump(h)
    /\ inputs' = inputs + 1
    /\ panicked' = (h.kind = "panic")
    /\ elements' = IF h.kind = "Summary" THEN ToggleAt(elements, h.path) ELSE elements
    /\ events' = IF h.kind = "Summary" THEN [events EXCEPT !.reposition = TRUE] ELSE events
    /\ scroll_y' = IF IsJump(h)
                   THEN SetScrollY(positioner, positioner.anchors[Unwrap(h.link)])
                   ELSE scroll_y
    /\ last' = Last(IF IsJump(h) THEN "anchor"
                    ELSE IF h.kind = "Summary" THEN "toggle" ELSE "click")
    /\ trip' = NoTrip
    /\ UNCHANGED <<positioner, zoom, element_padding, opts, element_queue, interpreter,
                   current_file_content, need_repositioning, pending_resize, pass,
                   laid_with>>
    /\ RestUnchanged
    /\ HelpUnchanged

\* WindowEvent::MouseInput, Pressed, with a summary or an anchor link under the
\* cursor: the section's hidden flag flipped and InlyneEvent::Reposition sent,
\* or the scroll offset set to the anchor's position
MousePressed(loc) == PressedOn(FindHoverable(elements, loc))

\* InlyneEvent::FileChange { contents }: the content recorded and, unless the help
\* is shown, load_file: queue and elements cleared, reserved_height and anchors
\* reset, the contents sent to the interpreter
FileChange(contents) ==
    /\ ~panicked
    /\ inputs < MaxInputs
    /\ contents # current_file_content
    /\ inputs' = inputs + 1
    /\ current_file_content' = contents
    /\ IF help_visible
       THEN UNCHANGED <<element_queue, elements, positioner, interpreter>>
       ELSE /\ element_queue' = <<>>
            /\ elements' = <<>>
            /\ positioner' = [positioner EXCEPT
                                !.reserved_height = opts.element_padding * positioner.hidpi_scale * ZoomOne,
                                !.anchors = <<>>]
            /\ interpreter' = contents
    /\ last' = Last("load")
    /\ trip' = NoTrip
    /\ UNCHANGED <<zoom, scroll_y, element_padding, opts, need_repositioning,
                   pending_resize, events, panicked, pass>>
    /\ laid_with' = IF help_visible THEN laid_with ELSE [laid_with EXCEPT !.doc = {}]
    /\ RestUnchanged
    /\ HelpUnchanged

\* Action::Help with the help hidden: help_visible = true; show_help()
ShowHelp ==
    /\ ~panicked
    /\ inputs < MaxInputs
    /\ ~help_visible
    /\ inputs' = inputs + 1
    /\ help_visible' = TRUE
    /\ saved_scroll_y' = scroll_y
    /\ help_element_queue' = <<>>
    /\ help_elements' = <<>>
    /\ element_padding' = opts.element_padding
    /\ help_interpreter' = HelpDoc
    /\ scroll_y' = 0
    /\ positioner' = [positioner EXCEPT
                        !.reserved_height = opts.element_padding * positioner.hidpi_scale * ZoomOne]
    /\ last' = Last("show_help")
    /\ trip' = TripAtShowHelp
    /\ UNCHANGED <<zoom, opts, need_repositioning, pending_resize, events, panicked, pass>>
    /\ laid_with' = [laid_with EXCEPT !.help = {}]
    /\ RestUnchanged
    /\ DocUnchanged

\* Action::Help with the help shown: help_visible = false; hide_help()
HideHelp ==
    /\ ~panicked
    /\ inputs < MaxInputs
    /\ help_visible
    /\ inputs' = inputs + 1
    /\ help_visible' = FALSE
    /\ help_elements' = <<>>
    /\ help_element_queue' = <<>>
    /\ element_padding' = opts.element_padding
    /\ positioner' = [positioner EXCEPT !.reserved_height =
                         HideHelpHeight(positioner, elements, zoom, opts.element_padding)]
    /\ scroll_y' = SetScrollY(positioner', saved_scroll_y)
    /\ last' = Last("hide_help")
    /\ trip' = TripAfterHideHelp
    /\ UNCHANGED <<zoom, opts, saved_scroll_y, help_interpreter, need_repositioning,
                   pending_resize, events, panicked, pass>>
    /\ laid_with' = [laid_with EXCEPT !.help = {}]
    /\ RestUnchanged
    /\ DocUnchanged

Next ==
    \/ InterpreterPush
    \/ HelpInterpreterPush
    \/ PositionQueue
    \/ RedrawRequested
    \/ \E n \in ScrollLines : Scroll(n)
    \/ \E d \in {"Up", "Down"} : ToEdge(d)
    \/ \E a \in ZoomActions : ZoomKey(a)
    \/ \E size \in LoopScreens : Resized(size)
    \/ RepositionEvent
    \/ MainEventsCleared
    \/ \E loc \in ClickPoints : MousePressed(loc)
    \/ \E doc \in LoopDocs : FileChange(doc)
    \/ ShowHelp
    \/ HideHelp

Spec == Init /\ [][Next]_vars

----------------------------------------------------------------------------
(* The queue drain alone: a batch from the interpreter, filtered and laid   *)
(* out by position_queued_elements.                                         *)

BlankTable == Table(1, 2, 60, 20, "blank")

FilterCatalog == <<Para, Header, PlainTable, CaptionedTable, BlankTable>>

QueueDocs == {ListOf(FilterCatalog, q) : q \in SeqsUpTo(Len(FilterCatalog), MaxBatch)}

QueueInit == LoopInit(QueueDocs, {<<Px(800), Px(600)>>})

QueueNext ==
    \/ InterpreterPush
    \/ PositionQueue

SpecQueue == QueueInit /\ [][QueueNext]_vars

----------------------------------------------------------------------------
(* Properties of the queue drain *)

\* a Table whose caption is missing or made only of empty or blank texts
Uncaptioned(e) == e.kind = "Table" /\ e.caption \in {"none", "notexts", "blank"}

IsHeader(e) == e.kind = "TextBox" /\ e.is_header

\* the table at j is the next Table after the header at i, and it is uncaptioned
HeaderOfTable(batch, i, j) ==
    /\ i < j
    /\ IsHeader(batch[i])
    /\ Uncaptioned(batch[j])
    /\ \A t \in (i + 1)..(j - 1) : batch[t].kind # "Table"

\* place m of the batch lies strictly between a header and the next Table after
\* it, that table being uncaptioned
InSpan(batch, m) ==
    \E i \in 1..(m - 1), j \in (m + 1)..Len(batch) : HeaderOfTable(batch, i, j)

RECURSIVE OutsideSpans(_, _)
\* the elements of the batch from place m on that lie in no span, in their order
OutsideSpans(batch, m) ==
    IF m > Len(batch) THEN <<>>
    ELSE (IF InSpan(batch, m) THEN <<>> ELSE <<batch[m]>>) \o OutsideSpans(batch, m + 1)

\* the places of the resulting list that hold the element named id
PlacesOf(list, id) == {x \in 1..Len(list) : list[x].id = id}

\* the filter has run on a drained batch and has returned
Filtered == last.kind = "queue" /\ ~panicked

\* C7: after the filter has run on a drained batch, for every header of the batch
\* whose next Table is uncaptioned, none of the elements that were between the
\* two is in the resulting list, and nothing stands between the header and the
\* table where the list holds both
C7_FilterPostcondition ==
    Filtered =>
        \A i \in 1..Len(last.batch), j \in 1..Len(last.batch) :
            HeaderOfTable(last.batch, i, j) =>
                /\ \A m \in (i + 1)..(j - 1) : PlacesOf(last.kept, last.batch[m].id) = {}
                /\ \A x \in PlacesOf(last.kept, last.batch[i].id),
                      y \in PlacesOf(last.kept, last.batch[j].id) : y = x + 1

C7_Witness ==
    /\ Filtered
    /\ \E i \in 1..Len(last.batch), j \in 1..Len(last.batch) :
          /\ HeaderOfTable(last.batch, i, j)
          /\ j >= i + 3
          /\ last.batch[j].caption = "blank"
          /\ PlacesOf(last.kept, last.batch[i].id) # {}
          /\ PlacesOf(last.kept, last.batch[j].id) # {}

\* C8: the filter removes only the elements strictly between a header and the
\* next Table after it when that table is uncaptioned; every Table and every
\* element outside such spans is still present, in the original order
C8_FilterFrame ==
    Filtered => last.kept = OutsideSpans(last.batch, 1)

----------------------------------------------------------------------------
(* Properties of the event loop *)

\* handlers that end with a stretch of the positioned list just laid out
AfterLayout ==
    /\ ~panicked
    /\ \/ last.kind \in {"queue", "zoom"}
       \/ last.kind \in {"redraw", "resize", "reposition"} /\ ~help_visible

\* C6: whenever a header is directly followed in the positioned list by a Table
\* whose caption is missing or empty, after layout (by position_queued_elements
\* or by a full reposition) the table's y is the header's y plus its height
C6_HeaderTableGap ==
    AfterLayout =>
        \A i \in 1..(Len(elements) - 1) :
            (/\ IsHeader(elements[i])
             /\ elements[i + 1].kind = "Table"
             /\ elements[i + 1].caption \in {"none", "notexts"}
             /\ IsSome(elements[i].bounds)
             /\ IsSome(elements[i + 1].bounds)) =>
                Unwrap(elements[i + 1].bounds).pos[2] =
                    Unwrap(elements[i].bounds).pos[2] + HeightOf(elements[i])

\* C9: a zoom change and then a zoom change back to the original factor, both
\* through the zoom action handler, restore reserved_height and the scroll
\* fraction scroll_y / reserved_height (the offset to within rounding)
C9_ZoomRoundTrip ==
    (~panicked /\ trip.n = 2 /\ zoom = trip.zoom0) =>
        /\ positioner.reserved_height = trip.reserved0
        /\ scroll_y - trip.scroll0 \in -2..2

\* the scroll offset lies within the content
ScrollClamped ==
    /\ 0 <= scroll_y
    /\ scroll_y <= Max(0, positioner.reserved_height - ScreenHeight(positioner))

\* C10 as stated: the scroll offset is clamped in every state reached after a
\* handler of the event loop completes
C10_AsStated == ~panicked => ScrollClamped

\* C10 (amended): the scroll offset is clamped after every handler that sets it
\* (scroll, zoom, an applied resize, help show and hide, anchor jump) and
\* whenever a frame is drawn; load_file and the layout asked for by a section
\* toggle leave it as it was
C10_ScrollClamp ==
    (/\ ~panicked
     /\ last.kind \in {"scroll", "zoom", "resize", "show_help", "hide_help", "anchor",
                       "redraw"}) => ScrollClamped

C10_Witness ==
    /\ ~panicked
    /\ last.kind = "zoom"
    /\ scroll_y > 0
    /\ scroll_y = positioner.reserved_height - ScreenHeight(positioner)

\* the zoom and viewport of the frame being drawn
FrameConfig == <<zoom, positioner.screen_size>>

\* C11: whenever a frame is drawn, every element of the list displayed (the help
\* elements while help is visible, the document elements otherwise) has its
\* rectangle from a layout made with the current zoom and viewport size, so any
\* zoom change or resize before the frame was followed by a layout of that list
C11_LayoutFresh ==
    (last.kind = "redraw" /\ ~panicked) =>
        (IF help_visible THEN laid_with.help ELSE laid_with.doc) \subseteq {FrameConfig}

\* the anchor names declared by the text blocks of a list, at any depth
AnchorNamesOf(els) ==
    {Unwrap(t.is_anchor) : t \in {e \in AllOf(els) : e.kind = "TextBox" /\ IsSome(e.is_anchor)}}

\* the list the full pass of the last handler ran over: Action::Zoom lays out the
\* document, MainEventsCleared the list that is shown
JustPositioned ==
    IF last.kind = "zoom" \/ ~help_visible THEN elements ELSE help_elements

\* C12: after a full reposition pass the anchor registry holds exactly the anchor
\* names declared by the text blocks of the list just positioned, each with a y
\* of that pass; nothing is left of an earlier pass or of another list
C12_AnchorRebuild ==
    (~panicked /\ last.kind \in {"zoom", "resize", "reposition"}) =>
        /\ DOMAIN positioner.anchors = AnchorNamesOf(JustPositioned)
        /\ \A name \in DOMAIN positioner.anchors :
              positioner.anchors[name] \in
                  {Unwrap(e.bounds).pos[2] : e \in {t \in AllOf(JustPositioned) : IsSome(t.bounds)}}

----------------------------------------------------------------------------
(* Sections: lists that hold collapsible sections, laid out by reposition   *)
(* or one element at a time by position, and the cursor moved over them.    *)

\* the longest element list of sections
MaxTreeLen == 1

Summary == TextBox(50, 20, FALSE, None)

\* a section that is collapsed when it arrives
Folded == Section(Some(Summary), <<Para, Header>>, TRUE)

\* a collapsed section inside a section, with a sibling after it
Deep == Section(None, <<Section(Some(Header), <<PlainTable, Para>>, TRUE), Para>>, FALSE)

\* a collapsed section of a list item: summary and child carry the item's indent
Indented ==
    Section(Some([Summary EXCEPT !.indent = 40]), <<[Para EXCEPT !.indent = 40]>>, TRUE)

TreeCatalog == <<Para, Spacer(5), Pic, PlainTable, PicRow, Details, Folded, Deep, Indented>>

TreeLists == {ListOf(TreeCatalog, q) : q \in SeqsUpTo(Len(TreeCatalog), MaxTreeLen)}

TreeScreens == {<<Px(520), Px(300)>>, <<Px(180), Px(300)>>}

TreeInit ==
    /\ \E sz \in TreeScreens :
         positioner = PositionerNew(sz, 1, NoPageWidth, Px(DEFAULT_MARGIN), DEFAULT_PADDING)
    /\ element_padding = DEFAULT_PADDING
    /\ opts = [element_padding |-> DEFAULT_PADDING]
    /\ zoom = ZoomOne
    /\ elements \in {[i \in 1..Len(l) |-> PositionedNew(l[i])] : l \in TreeLists}
    /\ last = Last("init")
    /\ pass = NoPass
    /\ LoopIdle
    /\ RestIdle

\* Positioner::position called for the element at place i, fresh from
\* Positioned::new, r being what it returned; entry records the cursor the call
\* started at
PositionReturned(i, r) ==
    /\ elements[i].bounds = None
    /\ r.ok
    /\ positioner' = r.p
    /\ elements' = [elements EXCEPT ![i] = r.el]
    /\ entry' = Some([reserved_height |-> positioner.reserved_height, place |-> i])
    /\ last' = Last("position")
    /\ pass' = [NoPass EXCEPT !.toggled = pass.toggled \ {i}]
    /\ UNCHANGED <<zoom, element_padding, opts, mouse_position, hovered, search, drawn,
                   htmlified, html>>
    /\ LoopUnchanged

\* self.positioner.position(text_system, &mut element, zoom, element_padding)
PositionCall(i) ==
    PositionReturned(i, Position(positioner, elements[i], zoom, element_padding))

\* the centre of a rectangle
Centre(r) == <<r.pos[1] + r.size[1] \div 2, r.pos[2] + r.size[2] \div 2>>

\* corners, centre and the middle of the right edge of a rectangle
PointsOf(r) ==
    {r.pos, RectMax(r), Centre(r), <<r.pos[1] + r.size[1], r.pos[2] + r.size[2] \div 2>>}

\* where the cursor is moved to: over the summaries of the top-level sections and
\* to the centre of each of their children
HoverPoints ==
    UNION {(IF IsSome(elements[i].summary) /\ IsSome(Unwrap(elements[i].summary).bounds)
            THEN PointsOf(Unwrap(Unwrap(elements[i].summary).bounds)) ELSE {})
           \cup {Centre(Unwrap(elements[i].elements[k].bounds)) :
                    k \in {c \in 1..Len(elements[i].elements) :
                              IsSome(elements[i].elements[c].bounds)}} :
           i \in {j \in 1..Len(elements) : elements[j].kind = "Section"}}

\* WindowEvent::CursorMoved, h being what find_hoverable returned for loc
CursorMovedTo(loc, h) ==
    /\ pass.full
    /\ mouse_position' = loc
    /\ hovered' = h
    /\ last' = Last("hover")
    /\ UNCHANGED <<positioner, elements, zoom, element_padding, opts, pass, entry, search,
                   drawn, htmlified, html>>
    /\ LoopUnchanged

\* WindowEvent::CursorMoved: find_hoverable(&self.elements, loc), mouse_position = loc
CursorMoved(loc) == CursorMovedTo(loc, FindHoverable(elements, loc))

TreeNext ==
    \/ PosReposition
    \/ \E i \in 1..Len(elements) : PosToggle(i)
    \/ \E i \in 1..Len(elements) : PositionCall(i)
    \/ \E loc \in HoverPoints : CursorMoved(loc)

SpecTree == TreeInit /\ [][TreeNext]_vars

----------------------------------------------------------------------------
(* Properties of sections *)

\* the padding between elements at the current zoom
Gap == element_padding * positioner.hidpi_scale * zoom

\* the sections of a tree that are directly followed by a sibling in a section
NestedWithSibling(el) ==
    {<<s, k>> \in {t \in Tree(el) : t.kind = "Section"} \X (1..3) :
        k < Len(s.elements) /\ s.elements[k].kind = "Section"}

\* C13: when position returns, reserved_height is what it was at entry, for every
\* element variant; after a Section the cursor is back at the y the section
\* started at, also for a section nested in a section (the sibling after it is
\* placed from that y)
C13_CursorFrame ==
    last.kind = "position" =>
        LET el == elements[Unwrap(entry).place]
        IN  /\ positioner.reserved_height = Unwrap(entry).reserved_height
            /\ el.kind = "Section" => positioner.reserved_height = Unwrap(el.bounds).pos[2]
            /\ \A n \in NestedWithSibling(el) :
                  Unwrap(n[1].elements[n[2] + 1].bounds).pos[2] =
                      Unwrap(n[1].elements[n[2]].bounds).pos[2]
                          + HeightOf(n[1].elements[n[2]]) + Gap

C13_Witness ==
    /\ last.kind = "position"
    /\ NestedWithSibling(elements[Unwrap(entry).place]) # {}
    /\ \E n \in NestedWithSibling(elements[Unwrap(entry).place]) :
          /\ HeightOf(n[1].elements[n[2]]) > 0
          /\ Len(n[1].elements[n[2]].elements) > 0
    /\ Unwrap(entry).reserved_height > 0

\* the sections laid out since the hidden flag of their top-level element changed
FreshSections ==
    UNION {{t \in Tree(elements[i]) : t.kind = "Section"} :
           i \in {j \in 1..Len(elements) : IsSome(elements[j].bounds) /\ j \notin pass.toggled}}

\* what the summary adds to its section: its height and a padding, 0 without one
SummaryPart(s) == IF IsSome(s.summary) THEN HeightOf(Unwrap(s.summary)) + Gap ELSE 0

\* C18: after positioning a Section, every child has a rectangle at the private
\* cursor (the first below the summary part, each next one a height and a padding
\* further), hidden or not; the section is as high as its summary part when it is
\* hidden, and as high as the summary part plus the sum of (child height +
\* padding) when it is not
C18_SectionHeight ==
    \A s \in FreshSections :
        /\ \A k \in 1..Len(s.elements) : IsSome(s.elements[k].bounds)
        /\ Len(s.elements) >= 1 =>
              Unwrap(s.elements[1].bounds).pos[2] = Unwrap(s.bounds).pos[2] + SummaryPart(s)
        /\ \A k \in 1..(Len(s.elements) - 1) :
              Unwrap(s.elements[k + 1].bounds).pos[2] =
                  Unwrap(s.elements[k].bounds).pos[2] + HeightOf(s.elements[k]) + Gap
        /\ HeightOf(s) = IF s.hidden THEN SummaryPart(s)
                         ELSE SummaryPart(s) + SumHeightsPlus(s.elements, 1, Gap)

C18_Witness ==
    \E s \in FreshSections, t \in FreshSections :
        /\ s.hidden /\ IsSome(s.summary) /\ Len(s.elements) >= 2
        /\ HeightOf(s) > 0 /\ HeightOf(s.elements[1]) > 0
        /\ ~t.hidden /\ Len(t.elements) >= 2 /\ HeightOf(t) > SummaryPart(t)

RECURSIVE ThroughHidden(_, _)
\* a section above the last place of path is hidden
ThroughHidden(els, path) ==
    IF Len(path) <= 1 THEN FALSE
    ELSE \/ els[Head(path)].kind = "Section" /\ els[Head(path)].hidden
         \/ ThroughHidden(els[Head(path)].elements, Tail(path))

\* C19: with the cursor at a point of the summary rectangle of a top-level Section,
\* find_hoverable returns the Summary of that section; and it never returns a child
\* of a section whose hidden flag is set
C19_SummaryHit ==
    last.kind = "hover" =>
        /\ \A i \in 1..Len(elements) :
              (/\ elements[i].kind = "Section"
               /\ IsSome(elements[i].summary)
               /\ IsSome(Unwrap(elements[i].summary).bounds)
               /\ RectContains(Unwrap(Unwrap(elements[i].summary).bounds), mouse_position)) =>
                  hovered.kind = "Summary" /\ hovered.path = <<i>>
        /\ ~ThroughHidden(elements, hovered.path)

----------------------------------------------------------------------------
(* Properties of the event loop's element lists *)

\* C14: every element of the document's list and of the help's list, every child
\* of a row or section and every summary in them has a rectangle, so rendering,
\* image binding and hit-testing never read bounds = None, and no click ends in
\* the panic of Positioned::contains
C14_NoUnpositionedReads ==
    /\ ~panicked =>
          \A e \in AllOf(elements) \cup AllOf(help_elements) : IsSome(e.bounds)
    /\ last.kind = "click" => ~panicked

C14_Witness ==
    /\ ~panicked
    /\ last.kind = "toggle"
    /\ \E e \in AllOf(elements) :
          e.kind = "Section" /\ IsSome(e.summary) /\ e.hidden /\ Len(e.elements) > 0
    /\ help_elements # <<>>

\* a Table whose grid layout fails stands somewhere in a list
LayoutFails(els) == \E e \in AllOf(els) : e.kind = "Table" /\ e.fails

\* C16: a table layout failure during a positioning pass (the drain of a queue or
\* a full reposition) aborts that pass and leaves the event loop running: the
\* program is never terminated by it
C16_LayoutFailureSurvived ==
    (LayoutFails(last.kept) \/ LayoutFails(elements) \/ LayoutFails(help_elements)) =>
        ~panicked

\* the ids of a list's elements, in order
IdsOf(els) == [i \in 1..Len(els) |-> els[i].id]

\* s is t with elements left out: the places of s in t are strictly increasing
SubsequenceOf(s, t) ==
    \E f \in [1..Len(s) -> 1..Len(t)] :
        /\ \A i \in 1..Len(s) : s[i] = t[f[i]]
        /\ \A i \in 1..(Len(s) - 1) : f[i] < f[i + 1]

\* queue' is queue with elements pushed at its end
Extends(after, before) ==
    Len(after) >= Len(before) /\ SubSeq(after, 1, Len(before)) = before

\* a step of position_queued_elements that returned: the queue before it, and
\* the positioned list before and after it
DrainPost(queue, list_before, list_after) ==
    /\ last'.batch = queue
    /\ SubsequenceOf(last'.kept, queue)
    /\ IdsOf(list_after) = IdsOf(list_before) \o IdsOf(last'.kept)

\* C15: position_queued_elements takes the whole queue at once: the drained batch
\* is the queue's content, the queue is empty afterwards, what the filter kept of
\* the batch is appended to the positioned list once and in queue order; and
\* what the producers push on any other step goes to the end of the queue and
\* stays there until the next drain (load_file and the help toggles clear a queue)
C15_AtomicDrain ==
    [][/\ (PositionQueue /\ ~panicked') =>
              /\ DrainPost(element_queue, elements, elements')
              /\ element_queue' = <<>>
       /\ (RedrawRequested /\ ~panicked' /\ ~help_visible) =>
              /\ DrainPost(element_queue, elements, elements')
              /\ element_queue' = <<>>
       /\ (RedrawRequested /\ ~panicked' /\ help_visible) =>
              /\ DrainPost(help_element_queue, help_elements, help_elements')
              /\ help_element_queue' = <<>>
       /\ ~(PositionQueue \/ RedrawRequested) =>
              /\ Extends(element_queue', element_queue) \/ last'.kind = "load"
              /\ \/ Extends(help_element_queue', help_element_queue)
                 \/ last'.kind \in {"show_help", "hide_help"}
      ]_vars

\* a drain of the document's queue whose filter removed something has appended
\* the rest, while what the help's producer pushed is still queued
C15_Witness ==
    /\ ~panicked
    /\ last.kind = "queue"
    /\ Len(last.kept) >= 2
    /\ Len(last.kept) < Len(last.batch)
    /\ IdsOf(elements) = IdsOf(last.kept)
    /\ help_element_queue # <<>>

----------------------------------------------------------------------------
(* Search highlights: Renderer::redraw draws one rectangle per search match *)
(* on the text the match's flat element index denotes.  A match is the      *)
(* tuple (element index, text index, char offset, cumulative char offset);  *)
(* the query is modelled by its number of chars.                            *)

\* TextBox::font_size, in base pixels
FontSize(text_box) == IF text_box.is_header THEN 24 ELSE 16

\* search_matches.iter().enumerate(): each tuple with its place in the list
Indexed(matches) ==
    [i \in 1..Len(matches) |->
        [match_idx |-> i - 1, elem_idx |-> matches[i][1], cumulative_offset |-> matches[i][4]]]

\* what the drawing reads of the renderer and of redraw's arguments, ms being
\* the matches with their places
SearchContext(p, z, y, s, ms) ==
    [p |-> p, zoom |-> z, scroll_y |-> y, current_match |-> s.current_match,
     query |-> s.query, ms |-> ms]

\* a match drawn on every element up to its index
MatchesElementUpTo(m, elem_idx) == m.elem_idx >= elem_idx

\* if match_elem_idx == elem_idx
MatchesElement(m, elem_idx) == m.elem_idx = elem_idx

\* the rectangle of match m on text_box, whose rectangle starts at pos and is h
\* high: the approximate character metric
HighlightRect(m, text_box, pos, h, cx) ==
    LET actual_font_size   == FontSize(text_box) * cx.p.hidpi_scale * cx.zoom
        actual_char_width  == actual_font_size \div 2
        actual_line_height == (actual_font_size * 12) \div 10
        match_width        == IF cx.query = 1 THEN (actual_char_width * 12) \div 10
                              ELSE cx.query * actual_char_width
        x_offset           == m.cumulative_offset * actual_char_width
    IN  Rect(<<pos[1] + x_offset, pos[2] - cx.scroll_y>>,
             <<match_width, Min(actual_line_height, h)>>)

\* for (match_idx, ..) in search_matches: a rectangle for each match on elem_idx,
\* in the list's order; current is the colour of the current match
BoxHighlights(cx, elem_idx, text_box, pos, h) ==
    LET hits == SelectSeq(cx.ms, LAMBDA m : MatchesElement(m, elem_idx))
    IN  [i \in 1..Len(hits) |->
            [match |-> hits[i].match_idx,
             current |-> cx.current_match = Some(hits[i].match_idx),
             rect |-> HighlightRect(hits[i], text_box, pos, h, cx)]]

\* draw_search_highlights, a TextBox: its matches drawn if it has bounds, then
\* elem_idx += 1
TextStep(st, cx, el) ==
    [idx |-> st.idx + 1,
     out |-> st.out \o (IF IsSome(el.bounds)
                        THEN BoxHighlights(cx, st.idx, el, Unwrap(el.bounds).pos,
                                           Unwrap(el.bounds).size[2])
                        ELSE <<>>)]

RECURSIVE CellsLoop(_, _, _, _)
\* draw_search_highlights, the children of a Section or Row: the TextBox ones
CellsLoop(st, cx, kids, i) ==
    IF i > Len(kids) THEN st
    ELSE CellsLoop(IF kids[i].kind = "TextBox" THEN TextStep(st, cx, kids[i]) ELSE st,
                   cx, kids, i + 1)

\* draw_search_highlights, one element of the list
HighlightStep(st, cx, el) ==
    CASE el.kind = "TextBox" -> TextStep(st, cx, el)
      [] el.kind = "Section" -> CellsLoop(st, cx, el.elements, 1)
      [] el.kind = "Table"   -> [st EXCEPT !.idx = @ + el.rows * el.cols]
      [] el.kind = "Row"     -> CellsLoop(st, cx, el.elements, 1)
      [] OTHER               -> st

RECURSIVE HighlightLoop(_, _, _, _)
HighlightLoop(st, cx, els, i) ==
    IF i > Len(els) THEN st
    ELSE HighlightLoop(HighlightStep(st, cx, els[i]), cx, els, i + 1)

\* Renderer::draw_search_highlights: [idx, out], out being the rectangles drawn
DrawSearchHighlights(els, cx) == HighlightLoop([idx |-> 0, out |-> <<>>], cx, els, 1)

\* the layout node of the n-th cell (row by row, from 0) of a table's layout
CellNode(table, layout, n) ==
    Rect(<<layout.grid_pos[1] + (n % table.cols) * (layout.cell[1] + Px(TABLE_COL_GAP)),
           layout.grid_pos[2] + (n \div table.cols) * (layout.cell[2] + Px(TABLE_ROW_GAP))>>,
         layout.cell)

RECURSIVE TableCellsLoop(_, _, _, _, _, _)
\* draw_search_highlights_with_tables, the cells of a table at pos: the matches
\* on a cell drawn at its layout node, then elem_idx += 1
TableCellsLoop(st, cx, table, pos, layout, n) ==
    IF n >= table.rows * table.cols THEN st
    ELSE LET node == CellNode(table, layout, n)
         IN  TableCellsLoop(
                 [idx |-> st.idx + 1,
                  out |-> st.out \o BoxHighlights(cx, st.idx, table,
                                                  <<pos[1] + node.pos[1], pos[2] + node.pos[2]>>,
                                                  node.size[2])],
                 cx, table, pos, layout, n + 1)

\* draw_search_highlights_with_tables, one element of the list in the second loop
TableStep(st, cx, el) ==
    IF ~IsSome(el.bounds) THEN st
    ELSE LET pos == Unwrap(el.bounds).pos
         IN  CASE el.kind = "TextBox" -> [st EXCEPT !.idx = @ + 1]
               [] el.kind = "Section" ->
                    [st EXCEPT !.idx = @ + Cardinality({k \in 1..Len(el.elements) :
                                                         el.elements[k].kind = "TextBox"})]
               [] el.kind = "Table" ->
                    LET layout == TableLayout(el,
                                      Max(cx.p.screen_size[1] - pos[1] - cx.p.page_margin
                                              - Centering(cx.p), 0),
                                      cx.p.hidpi_scale, cx.zoom)
                    IN  IF layout.ok THEN TableCellsLoop(st, cx, el, pos, layout, 0) ELSE st
               [] OTHER -> st

RECURSIVE TableLoop(_, _, _, _)
TableLoop(st, cx, els, i) ==
    IF i > Len(els) THEN st
    ELSE TableLoop(TableStep(st, cx, els[i]), cx, els, i + 1)

\* Renderer::draw_search_highlights_with_tables: the rectangles drawn, those of
\* draw_search_highlights first
DrawSearchHighlightsWithTables(els, cx) ==
    DrawSearchHighlights(els, cx).out \o TableLoop([idx |-> 0, out |-> <<>>], cx, els, 1).out

\* Renderer::redraw: the highlights drawn for the matches ms of search s
Redrawn(els, p, z, y, s, ms) ==
    IF s.active /\ ms # <<>>
    THEN DrawSearchHighlightsWithTables(els, SearchContext(p, z, y, s, ms))
    ELSE <<>>

\* the longest match list and the largest element index of the searches explored
MaxMatches == 2

MaxElemIdx == 7

SearchTuples == {<<e, 0, 3, 3>> : e \in 0..MaxElemIdx}

RECURSIVE TuplesUpTo(_)
TuplesUpTo(k) ==
    IF k = 0 THEN {<<>>}
    ELSE LET shorter == TuplesUpTo(k - 1)
         IN  shorter \cup {Append(q, t) : q \in {r \in shorter : Len(r) = k - 1},
                                          t \in SearchTuples}

\* redraw's search arguments
Searches ==
    {[active |-> a, matches |-> ms, current_match |-> c, query |-> n] :
        a \in BOOLEAN, ms \in TuplesUpTo(MaxMatches), c \in {None, Some(0)}, n \in {1, 3}}

TextRow == Row(<<Para, Pic, Header>>)

SearchDocs ==
    {<<Para, PlainTable, Header>>, <<TextRow, PlainTable>>, <<Folded, Spacer(5), Para>>,
     <<Details, CaptionedTable>>, <<Pic, Deep>>}

\* a laid-out document on the screen and the search the user has typed
SearchInit ==
    /\ \E l \in SearchDocs :
         LET r == Reposition(PositionerNew(<<Px(800), Px(600)>>, 1, NoPageWidth,
                                           Px(DEFAULT_MARGIN), DEFAULT_PADDING),
                             [i \in 1..Len(l) |-> PositionedNew(WithId(l[i], i))],
                             ZoomOne, DEFAULT_PADDING)
         IN  positioner = r.p /\ elements = r.elements
    /\ element_padding = DEFAULT_PADDING
    /\ opts = [element_padding |-> DEFAULT_PADDING]
    /\ zoom = ZoomOne
    /\ last = Last("init")
    /\ pass = [NoPass EXCEPT !.full = TRUE]
    /\ LoopIdle
    /\ entry = None
    /\ mouse_position = <<0, 0>>
    /\ hovered = NoHover
    /\ search \in Searches
    /\ drawn = <<>>
    /\ htmlified = <<>>
    /\ html = None

\* Renderer::redraw, the search highlights of the frame
SearchRedraw ==
    /\ drawn' = Redrawn(elements, positioner, zoom, scroll_y, search, Indexed(search.matches))
    /\ last' = Last("highlight")
    /\ UNCHANGED <<positioner, elements, zoom, element_padding, opts, pass, entry,
                   mouse_position, hovered, search, htmlified, html>>
    /\ LoopUnchanged

SearchNext ==
    \/ SearchRedraw
    \/ PosReposition
    \/ \E i \in 1..Len(elements) : PosToggle(i)

SpecSearch == SearchInit /\ [][SearchNext]_vars

\* the number of text-bearing leaves the flat element index runs over
FlatLeaves(el) ==
    CASE el.kind = "TextBox" -> 1
      [] el.kind \in {"Section", "Row"} ->
           Cardinality({k \in 1..Len(el.elements) : el.elements[k].kind = "TextBox"})
      [] el.kind = "Table" -> el.rows * el.cols
      [] OTHER -> 0

RECURSIVE FlatCountFrom(_, _)
FlatCountFrom(els, i) ==
    IF i > Len(els) THEN 0 ELSE FlatLeaves(els[i]) + FlatCountFrom(els, i + 1)

FlatCount(els) == FlatCountFrom(els, 1)

\* the places (from 0) of the matches whose element index denotes no element
Malformed == {k \in 0..(Len(search.matches) - 1) :
                 search.matches[k + 1][1] >= FlatCount(elements)}

\* C17: a match whose flat element index denotes no text-bearing element of the
\* list gets no rectangle, and the frame's highlights are those drawn for the
\* other matches alone
C17_MalformedIgnored ==
    last.kind = "highlight" =>
        /\ \A i \in 1..Len(drawn) : drawn[i].match \notin Malformed
        /\ drawn = Redrawn(elements, positioner, zoom, scroll_y, search,
                           SelectSeq(Indexed(search.matches),
                                     LAMBDA m : m.match_idx \notin Malformed))

C17_Witness ==
    /\ last.kind = "highlight"
    /\ Malformed # {}
    /\ Len(drawn) >= 1
    /\ search.matches[1][1] < FlatCount(elements)
    /\ 1 \in Malformed
    /\ \E e \in AllOf(elements) : e.kind = "Table"

----------------------------------------------------------------------------
(* Pandoc table captions: markdown_to_html passes the HTML that comrak      *)
(* produced through add_pandoc_table_captions.  The HTML is a sequence of   *)
(* lines; a line is [kind, id], id being its place in the input (the        *)
(* caption text of a caption paragraph is named by the paragraph's id):     *)
(*   "table_p"    <p>Table: X</p>         "colon_p"     <p>: X</p>          *)
(*   "table"      <table>                 "table_attr"  <table class="..">  *)
(*   "end_table"  </table>                "blank"       an empty line       *)
(*   "other"      any other line          "caption"     <caption>X</caption> *)

LineKinds == {"table_p", "colon_p", "table", "table_attr", "end_table", "blank", "other"}

\* line.starts_with("<p>Table: ") && line.ends_with("</p>")
IsTableParagraph(line) == line.kind = "table_p"

\* next_line.starts_with("<p>: ") && next_line.ends_with("</p>")
IsColonParagraph(line) == line.kind = "colon_p"

\* a line that starts with any table opening tag
StartsWithAnyTable(line) == line.kind \in {"table", "table_attr"}

\* line.starts_with("<table>")
StartsWithTable(line) == line.kind = "table"

\* line.starts_with("</table>")
StartsWithEndTable(line) == line.kind = "end_table"

\* next_line.trim().is_empty()
IsBlankLine(line) == line.kind = "blank"

\* <caption>X</caption>, X being the text of the paragraph id
CaptionLine(id) == [kind |-> "caption", id |-> id]

RECURSIVE PeekPastBlank(_, _)
\* while let Some(next_line) = lines.peek(): the place of the first line from i
\* on that is not blank, Len + 1 when there is none
PeekPastBlank(lines, i) ==
    IF i <= Len(lines) /\ IsBlankLine(lines[i]) THEN PeekPastBlank(lines, i + 1) ELSE i

\* result.rfind("<table>"): the place of the last line of result holding it, 0
\* for None
RFindTable(result) ==
    LET places == {k \in 1..Len(result) : result[k].kind = "table"}
    IN  IF places = {} THEN 0 ELSE CHOOSE k \in places : \A m \in places : m <= k

\* result.insert_str(table_start + 7, "\n<caption>X</caption>")
InsertCaption(result, id) ==
    LET at == RFindTable(result)
    IN  IF at = 0 THEN result
        ELSE SubSeq(result, 1, at) \o <<CaptionLine(id)>> \o SubSeq(result, at + 1, Len(result))

\* one iteration of while let Some(line) = lines.next(), st being [i, result,
\* pending_caption] with i the place of the line
CaptionStep(st, lines) ==
    LET line == lines[st.i]
        j    == PeekPastBlank(lines, st.i + 1)
        temp_lines == SubSeq(lines, st.i + 1, j - 1)
    IN  IF IsTableParagraph(line)
        THEN IF j <= Len(lines) /\ StartsWithTable(lines[j])
             THEN [i |-> j, result |-> st.result \o temp_lines,
                   pending_caption |-> Some(line.id)]
             ELSE [st EXCEPT !.i = j, !.result = @ \o <<line>> \o temp_lines]
        ELSE IF StartsWithTable(line)
        THEN [i |-> st.i + 1,
              result |-> st.result \o <<[kind |-> "table", id |-> line.id]>>
                             \o (IF IsSome(st.pending_caption)
                                 THEN <<CaptionLine(Unwrap(st.pending_caption))>> ELSE <<>>),
              pending_caption |-> None]
        ELSE IF StartsWithEndTable(line)
        THEN IF j <= Len(lines) /\ IsColonParagraph(lines[j])
             THEN [st EXCEPT !.i = j + 1,
                             !.result = InsertCaption(@ \o <<line>>, lines[j].id)]
             ELSE [st EXCEPT !.i = j, !.result = @ \o <<line>> \o temp_lines]
        ELSE [st EXCEPT !.i = @ + 1, !.result = @ \o <<line>>]

RECURSIVE CaptionLoop(_, _)
CaptionLoop(st, lines) ==
    IF st.i > Len(lines) THEN st ELSE CaptionLoop(CaptionStep(st, lines), lines)

\* add_pandoc_table_captions(html): the lines of the result
AddPandocTableCaptions(lines) ==
    CaptionLoop([i |-> 1, result |-> <<>>, pending_caption |-> None], lines).result

\* the longest HTML explored, in lines
MaxLines == 5

RECURSIVE KindsUpTo(_)
KindsUpTo(k) ==
    IF k = 0 THEN {<<>>}
    ELSE LET shorter == KindsUpTo(k - 1)
         IN  shorter \cup {Append(q, t) : q \in {r \in shorter : Len(r) = k - 1},
                                          t \in LineKinds}

\* every table of the HTML is closed, and tables are not nested
WellFormed(kinds) ==
    \A i \in 1..Len(kinds) :
        /\ kinds[i] \in {"table", "table_attr"} =>
              \E j \in (i + 1)..Len(kinds) :
                  /\ kinds[j] = "end_table"
                  /\ \A m \in (i + 1)..(j - 1) :
                        kinds[m] \notin {"table", "table_attr", "end_table"}
        /\ kinds[i] = "end_table" =>
              \E j \in 1..(i - 1) :
                  /\ kinds[j] \in {"table", "table_attr"}
                  /\ \A m \in (j + 1)..(i - 1) :
                        kinds[m] \notin {"table", "table_attr", "end_table"}

\* the HTML of a document, as comrak renders it with raw HTML passed through
PandocInit ==
    /\ htmlified \in {[i \in 1..Len(q) |-> [kind |-> q[i], id |-> i]] :
                        q \in {r \in KindsUpTo(MaxLines) : WellFormed(r)}}
    /\ html = None
    /\ positioner = PositionerNew(<<Px(800), Px(600)>>, 1, NoPageWidth, Px(DEFAULT_MARGIN),
                                  DEFAULT_PADDING)
    /\ element_padding = DEFAULT_PADDING
    /\ opts = [element_padding |-> DEFAULT_PADDING]
    /\ zoom = ZoomOne
    /\ elements = <<>>
    /\ last = Last("init")
    /\ pass = NoPass
    /\ LoopIdle
    /\ entry = None
    /\ mouse_position = <<0, 0>>
    /\ hovered = NoHover
    /\ search = NoSearch
    /\ drawn = <<>>

\* markdown_to_html: htmlified = add_pandoc_table_captions(htmlified)
MarkdownToHtml ==
    /\ html = None
    /\ html' = Some(AddPandocTableCaptions(htmlified))
    /\ last' = Last("html")
    /\ UNCHANGED <<positioner, elements, zoom, element_padding, opts, pass, entry,
                   mouse_position, hovered, search, drawn, htmlified>>
    /\ LoopUnchanged

PandocNext == MarkdownToHtml

SpecPandoc == PandocInit /\ [][PandocNext]_vars

\* the places in out of the line that came from input line id, as kind
PlacesIn(out, kind, id) == {k \in 1..Len(out) : out[k] = [kind |-> kind, id |-> id]}

\* the table opening at o has the caption of paragraph id directly after its tag
CaptionedBy(out, o, id) ==
    \E k \in 1..(Len(out) - 1) :
        /\ out[k].id = o /\ out[k].kind \in {"table", "table_attr"}
        /\ out[k + 1] = CaptionLine(id)

\* the opening tag of the table that the closing tag at c closes
OpeningOf(lines, c) ==
    CHOOSE o \in 1..(c - 1) :
        /\ StartsWithAnyTable(lines[o])
        /\ \A m \in (o + 1)..(c - 1) : ~StartsWithAnyTable(lines[m])

\* the place of the last line before i that is not blank, 0 when there is none
BackPastBlank(lines, i) ==
    LET places == {k \in 1..(i - 1) : ~IsBlankLine(lines[k])}
    IN  IF places = {} THEN 0 ELSE CHOOSE k \in places : \A m \in places : m <= k

\* the "Table: " paragraphs directly before the table opening at o, and the ": "
\* paragraphs directly after the closing tag at c, blank lines allowed
CaptionBefore(lines, o) ==
    {i \in 1..(o - 1) : IsTableParagraph(lines[i]) /\ PeekPastBlank(lines, i + 1) = o}

CaptionAfter(lines, c) ==
    {i \in (c + 1)..Len(lines) : IsColonParagraph(lines[i]) /\ BackPastBlank(lines, i) = c}

\* C20: a "Table: X" paragraph followed by a table, and a ": X" paragraph that
\* follows a table, become <caption>X</caption> directly after that table's
\* opening tag and the paragraph line is removed; a table without an adjacent
\* caption paragraph gets no caption, and a "Table: " paragraph not followed by a
\* table is kept
C20_PandocCaptions ==
    last.kind = "html" =>
        LET lines == htmlified
            out   == Unwrap(html)
        IN  /\ \A o \in {k \in 1..Len(lines) : StartsWithAnyTable(lines[k])} :
                  /\ \A i \in CaptionBefore(lines, o) :
                        CaptionedBy(out, o, i) /\ PlacesIn(out, "table_p", i) = {}
                  /\ \A c \in {k \in o..Len(lines) : StartsWithEndTable(lines[k])} :
                        OpeningOf(lines, c) = o =>
                            /\ \A i \in CaptionAfter(lines, c) :
                                  CaptionedBy(out, o, i) /\ PlacesIn(out, "colon_p", i) = {}
                            /\ (CaptionBefore(lines, o) = {} /\ CaptionAfter(lines, c) = {}) =>
                                  ~\E i \in 1..Len(lines) : CaptionedBy(out, o, i)
            /\ \A i \in 1..Len(lines) :
                  (/\ IsTableParagraph(lines[i])
                   /\ ~\E o \in 1..Len(lines) :
                         StartsWithAnyTable(lines[o]) /\ i \in CaptionBefore(lines, o)) =>
                      PlacesIn(out, "table_p", i) # {}

----------------------------------------------------------------------------
(* Properties of anchors, captions and widths *)

RECURSIVE InOrder(_)
\* the elements of a list in the order position visits them: an element, then
\* the summary and the children of a section, the children of a row
InOrder(els) ==
    IF els = <<>> THEN <<>>
    ELSE LET el == Head(els)
         IN  <<el>> \o (IF IsSome(el.summary) THEN InOrder(el.summary) ELSE <<>>)
                    \o InOrder(el.elements) \o InOrder(Tail(els))

\* the places in a traversal of the text blocks that declare the anchor name
DeclaredAt(trail, name) ==
    {k \in 1..Len(trail) : trail[k].kind = "TextBox" /\ trail[k].is_anchor = Some(name)}

\* C21: after a full reposition pass, the registry value of every declared anchor
\* name is the y of the final rectangle of the last text block, in traversal
\* order, that declares it: at top level, in a section, or in a row on any line
C21_AnchorGeometry ==
    (pass.full /\ last.kind \in {"reposition", "zoom", "resize"}) =>
        LET trail == InOrder(elements)
        IN  \A name \in AnchorNamesOf(elements) :
                LET places == DeclaredAt(trail, name)
                    final  == CHOOSE k \in places : \A m \in places : m <= k
                IN  /\ name \in DOMAIN positioner.anchors
                    /\ positioner.anchors[name] = Unwrap(trail[final].bounds).pos[2]

\* the tables of the positioned list, with the layout position computed for each
LaidTables == {e \in AllOf(elements) : e.kind = "Table" /\ IsSome(e.bounds)}

LayoutOf(table) == TableLayout(table, TableBoundsWidth(positioner), positioner.hidpi_scale, zoom)

\* C22: Table::layout gives a table a caption slot (caption_layout is Some and
\* the table is higher than its grid) exactly when the filter takes the table
\* for captioned and exactly when reposition's padding rule does
C22_CaptionAgreement ==
    \A table \in LaidTables :
        LET layout   == LayoutOf(table)
            has_slot == IsSome(layout.caption_layout) /\ layout.grid_pos[2] > 0
        IN  /\ HeightOf(table) = layout.size[2]
            /\ has_slot <=> FilterHasCaption(table)
            /\ has_slot <=> ~RepositionCaptionEmpty(table)

\* what redraw's drawing reads in the current state
FrameContext == SearchContext(positioner, zoom, scroll_y, search, Indexed(search.matches))

\* the index the first cell of the table at place i of the list has in
\* draw_search_highlights and in draw_search_highlights_with_tables
FirstPassIndex(i) == DrawSearchHighlights(SubSeq(elements, 1, i - 1), FrameContext).idx

SecondPassIndex(i) ==
    TableLoop([idx |-> 0, out |-> <<>>], FrameContext, SubSeq(elements, 1, i - 1), 1).idx

\* C23: the two drawing passes give a table's cells the same flat element index,
\* and every search match is drawn as one rectangle at most
C23_IndexAgreement ==
    (last.kind = "highlight" /\ search.active /\ search.matches # <<>>) =>
        /\ \A i \in 1..Len(elements) :
              elements[i].kind = "Table" => SecondPassIndex(i) = FirstPassIndex(i)
        /\ \A k \in 0..(Len(search.matches) - 1) :
              Cardinality({j \in 1..Len(drawn) : drawn[j].match = k}) <= 1

\* render_elements, Element::Table: the width given to Table::layout for a table
\* at pos
RenderTableWidth(p, pos) == Max(p.screen_size[1] - pos[1] - p.page_margin - Centering(p), 0)

\* find_hoverable, Element::Table: screen_pos(screen_size, bounds.pos.0).0
HoverTableWidth(p, pos) == p.screen_size[1] - pos[1] - Px(DEFAULT_MARGIN)

\* the top-level tables of a list laid out by a full pass
TopTables == {e \in {elements[i] : i \in 1..Len(elements)} : e.kind = "Table" /\ IsSome(e.bounds)}

\* C24: positioning, rendering (and search highlighting, which computes the width
\* as rendering does) and hit-testing give Table::layout the same available
\* width, so the layout they use is the one whose size is the table's rectangle
C24_TableWidthAgreement ==
    pass.full =>
        \A table \in TopTables :
            LET pos == Unwrap(table.bounds).pos
            IN  /\ RenderTableWidth(positioner, pos) = TableBoundsWidth(positioner)
                /\ HoverTableWidth(positioner, pos) = TableBoundsWidth(positioner)
                /\ TableLayout(table, HoverTableWidth(positioner, pos),
                               positioner.hidpi_scale, zoom).size = Unwrap(table.bounds).size

----------------------------------------------------------------------------
(* Properties relating the drain, the help view and the frame *)

\* the document list holds exactly the batch that has just been drained into it
FirstArrival == Filtered /\ elements # <<>> /\ IdsOf(elements) = IdsOf(last.kept)

\* C25: the rectangles and reserved_height that position_queued_elements gives a
\* document when its elements first arrive are those of a full reposition of the
\* same list at the same zoom, padding, scale and window size
C25_IncrementalIsFull ==
    FirstArrival =>
        LET full == Reposition(positioner, elements, zoom, element_padding)
        IN  full.ok => /\ full.elements = elements
                       /\ full.p.reserved_height = positioner.reserved_height

\* the cursors an empty document leaves: load_file's, and that of a reposition of
\* the empty list at the current zoom
DocumentStarts ==
    {opts.element_padding * positioner.hidpi_scale * ZoomOne,
     RepositionStart(positioner, zoom, element_padding)}

\* the rectangles the drained batch gets when the drain starts at the cursor c
DrainedFrom(c) ==
    PositionQueuedElements(last.batch, [positioner EXCEPT !.reserved_height = c], <<>>,
                           zoom, element_padding).elements

\* C26: a document element drained by InlyneEvent::PositionQueue is positioned at
\* a cursor derived from the document alone: a batch drained into the empty
\* document list gets the rectangles of a drain that starts at the document's
\* start cursor, whether or not the help view was shown or drawn before
C26_HelpIsolation ==
    FirstArrival => \E c \in DocumentStarts : elements = DrainedFrom(c)

\* hide_help was the handler right after show_help
HelpRoundTrip == ~panicked /\ last.kind = "hide_help" /\ trip.n = 4

\* C27: show_help directly followed by hide_help restores reserved_height and
\* scroll_y to the values they had before show_help
C27_HelpRoundTrip ==
    HelpRoundTrip => /\ positioner.reserved_height = trip.reserved0
                     /\ scroll_y = trip.scroll0

----------------------------------------------------------------------------
(* The file and help handlers with the threads scheduled: the interpreter   *)
(* threads push what they were sent, and the event loop handles the         *)
(* PositionQueue events sent to it.                                         *)

LiveInit == LoopInit(LoopDocs, {<<Px(400), Px(100)>>})

LiveNext ==
    \/ InterpreterPush
    \/ HelpInterpreterPush
    \/ PositionQueue
    \/ RedrawRequested
    \/ \E doc \in LoopDocs : FileChange(doc)
    \/ ShowHelp
    \/ HideHelp

\* InlyneEvent::PositionQueue taken off the event loop's queue: the step of
\* PositionQueue as far as the pending events tell it
PositionQueueHandled ==
    /\ ~panicked
    /\ events.position_queue
    /\ events' = [events EXCEPT !.position_queue = FALSE]

\* the interpreter threads run to the end of what they were sent, and the event
\* loop handles every PositionQueue event sent to it
SpecLive ==
    /\ LiveInit
    /\ [][LiveNext]_vars
    /\ WF_vars(InterpreterPush)
    /\ WF_vars(HelpInterpreterPush)
    /\ WF_events(PositionQueueHandled)

\* what a list was made from: kind, header flag and place in the file of each
\* top-level element
Outline(els) == [i \in 1..Len(els) |-> <<els[i].kind, els[i].is_header, els[i].id>>]

\* the document list is the one the filter keeps of the latest file content, and
\* nothing of an older content is on its way
ShowsCurrentFile ==
    /\ interpreter = <<>>
    /\ element_queue = <<>>
    /\ Outline(elements) = Outline(Filter(current_file_content).vec)

\* C28: once the help is hidden, the document list is eventually the one made
\* from current_file_content, whatever file event arrived while the help was
\* shown, and without a further file event
C28_ReloadAfterHelp ==
    (last.kind = "hide_help" /\ ~panicked) ~> (panicked \/ help_visible \/ ShowsCurrentFile)

----------------------------------------------------------------------------
(* Properties of frames and of the filter's removal *)

\* the top-level sections of the document that have a rectangle
ShownSections ==
    {elements[i] : i \in {j \in 1..Len(elements) :
                             elements[j].kind = "Section" /\ IsSome(elements[j].bounds)}}

\* the section's rectangle is as high as its hidden flag says
HeightAgrees(s) ==
    HeightOf(s) = IF s.hidden THEN SummaryPart(s)
                  ELSE SummaryPart(s) + SumHeightsPlus(s.elements, 1, Gap)

\* C29: a full reposition runs between a click that flips a section's hidden flag
\* and the next frame, so in every frame drawn of the document each section's
\* rectangle height agrees with its hidden flag
C29_ToggleBeforeDraw ==
    (last.kind = "redraw" /\ ~panicked /\ ~help_visible) =>
        \A s \in ShownSections : HeightAgrees(s)

RECURSIVE RemovalSound(_, _, _, _)
\* every index the removal loop still has to pass to Vec::remove (marks[1..n],
\* last first) is within v when its turn comes and holds the element that stood
\* at that index of the batch when it was marked
RemovalSound(v, marks, n, batch) ==
    \/ n = 0
    \/ /\ marks[n] <= Len(v)
       /\ v[marks[n]].id = batch[marks[n]].id
       /\ RemovalSound(RemoveAt(v, marks[n]), marks, n - 1, batch)

\* C30: for every drained batch, each index the filter's removal loop passes to
\* Vec::remove is within the bounds of the batch at that moment and refers to
\* the element that was marked, so the filter does not panic
C30_RemovalFaultFree ==
    last.kind = "queue" =>
        /\ RemovalSound(last.batch, ElementsToRemove(last.batch),
                        Len(ElementsToRemove(last.batch)), last.batch)
        /\ ~panicked

====
